---- MODULE Spec2Model ----
(***************************************************************************)
(* Commit-aware repository cache of the file browser: the two-tier store   *)
(* (memoryCache / commitCache in front of localStorage), its deferred      *)
(* durable writes, and the directory loader that consults it.              *)
(*                                                                         *)
(* Strings that the code takes apart (cache keys, repository names, paths) *)
(* are sequences of atoms; a version token is a record whose flavor is the *)
(* prefix the code tests with startsWith and whose n is the rest.          *)
(*                                                                         *)
(* Record constructors list their fields in the order in which the names   *)
(* first occur in this module, the order TLC normalises records to, so     *)
(* that values shared between TLC's workers are never reordered in place.  *)
(***************************************************************************)
EXTENDS Integers, Sequences, FiniteSets, TLC

VARIABLES
    now,            \* Date.now()
    memoryCache,    \* Map cacheKey -> cache entry
    commitCache,    \* Map repoName -> commit record
    localStorage,   \* durable key-value store: key -> text
    timers,         \* pending setTimeout(..., 0) callbacks of setCachedData, FIFO
    cleared,        \* repositories cleared and not stored to since (history)
    remote,         \* the repository on the remote content host
    currentWorkspace, \* the workspace of the view: its id and its git_repo
    currentFolder,  \* the folder the view shows; Null at the root
    files,          \* the files the view shows
    folders,        \* the folders the view shows
    activeRequests, \* activeRequests.loadContents: the controller of the load in flight
    lastRequestedPaths, \* lastRequestedPaths.loadContents
    loads,          \* the loadContents calls in flight, each suspended at an await
    aborted,        \* the AbortControllers whose abort() has been called
    nextLoad,       \* number of the next loadContents call
    lastLoad,       \* what the loadContents call that returned last did (history)
    call,           \* a call of one of the pure functions: its input and its result
    user,           \* the user of the workspace store; Null when signed out
    workspaces,     \* the workspaces of the workspace store
    workspaceMemoryCache, \* Map cacheKey -> workspace cache record
    userMemoryCache \* Map cacheKey -> user cache record

storeVars == <<now, memoryCache, commitCache, localStorage, timers>>
accountVars == <<user, workspaces, workspaceMemoryCache, userMemoryCache>>
compVars == <<remote, currentWorkspace, currentFolder, files, folders, activeRequests, lastRequestedPaths,
              loads, aborted, nextLoad, lastLoad, call, accountVars>>

----------------------------------------------------------------------------
(* Program constants                                                       *)

CACHE_PREFIX == "gitea_repo_cache_"
CACHE_VERSION == "1.0"
MAX_CACHE_AGE == 24 * 60 * 60 * 1000

(* Bounds of the model                                                     *)

MaxTicks == 2
MaxTimers == 1
MaxCommits == 2
MaxLoads == 2

\* The clock advances in steps of half the maximum age, so that an age of
\* exactly MAX_CACHE_AGE occurs.
TickStep == MAX_CACHE_AGE \div 2

----------------------------------------------------------------------------
(* Values                                                                  *)

Null == [null |-> TRUE]

RealToken(k) == [flavor |-> "sha", n |-> k]
EmptyRepoToken(t) == [flavor |-> "empty-repo-", n |-> t]
ContentsBasedToken(t) == [flavor |-> "contents-based-", n |-> t]

RepoA == <<"a">>
RepoB == <<"b">>
Repos == {RepoA}

RootPath == << >>
DocsPath == <<"docs">>
Paths == {RootPath, DocsPath}

FileItem(name, path, sha, size) ==
    [name |-> name, path |-> path, sha |-> sha, size |-> size, id |-> sha, type |-> "file"]
FolderItem(name, path, sha) ==
    [name |-> name, path |-> path, id |-> sha, type |-> "dir"]

\* The listing of `path` in the tree of commit k of the remote repository.
TreeListing(k, path) ==
    IF path = RootPath
    THEN [files |-> IF k = 1 THEN <<FileItem("x.md", <<"x.md">>, "s1", 10)>>
                    ELSE <<FileItem("x.md", <<"x.md">>, "s1", 10),
                           FileItem("y.md", <<"y.md">>, "s2", 20)>>,
          folders |-> <<FolderItem("docs", <<"docs">>, "s3")>>]
    ELSE [files |-> IF k = 1 THEN <<FileItem("a.txt", <<"docs", "/", "a.txt">>, "s4", 30),
                                    FileItem("b.txt", <<"docs", "/", "b.txt">>, "s5", 40)>>
                    ELSE <<FileItem("a.txt", <<"docs", "/", "a.txt">>, "s4", 30)>>,
          folders |-> << >>]

MapSet(m, k, v) == [x \in (DOMAIN m) \cup {k} |-> IF x = k THEN v ELSE m[x]]
MapDelete(m, k) == [x \in (DOMAIN m) \ {k} |-> m[x]]
MapHas(m, k) == k \in DOMAIN m

IsPrefix(p, s) == Len(p) <= Len(s) /\ SubSeq(s, 1, Len(p)) = p

\* JSON text held by the durable store: either the serialisation of a value
\* or text that JSON.parse rejects.
JSONstringify(v) == [text |-> "json", value |-> v]
CorruptText == [text |-> "corrupt"]
JSONparseThrows(t) == t.text # "json"
JSONparse(t) == t.value

----------------------------------------------------------------------------
(* Cache keys                                                              *)

RECURSIVE StripLeading(_)
StripLeading(s) == IF s # << >> /\ Head(s) = "/" THEN StripLeading(Tail(s)) ELSE s

RECURSIVE StripTrailing(_)
StripTrailing(s) ==
    IF s # << >> /\ s[Len(s)] = "/" THEN StripTrailing(SubSeq(s, 1, Len(s) - 1)) ELSE s

getCacheKey(repoName, path) ==
    LET normalizedPath == StripTrailing(StripLeading(path))
    IN  <<CACHE_PREFIX>> \o repoName \o <<"_">>
            \o (IF normalizedPath = << >> THEN <<"root">> ELSE normalizedPath)

getCommitCacheKey(repoName) == <<CACHE_PREFIX, "commit", "_">> \o repoName

----------------------------------------------------------------------------
(* The two-tier store. Its functions are operators from the state of the   *)
(* store S = [memoryCache, commitCache, localStorage, timers] and the      *)
(* clock t to the state they leave and the value they return; threw tells  *)
(* whether an exception leaves the function.                               *)

Store ==
    [memoryCache |-> memoryCache, commitCache |-> commitCache,
     localStorage |-> localStorage, timers |-> timers]

Returns(S, v) == [st |-> S, ret |-> v, threw |-> FALSE]
Throws(S) == [st |-> S, ret |-> Null, threw |-> TRUE]

\* The try block of getCachedData.
getCachedDataTry(S, t, repoName, path) ==
    LET cacheKey == getCacheKey(repoName, path)
        memoryHit == MapHas(S.memoryCache, cacheKey)
        memoryCached == S.memoryCache[cacheKey]
        memoryValid == /\ memoryHit
                       /\ memoryCached.version = CACHE_VERSION
                       /\ (t - memoryCached.timestamp) < MAX_CACHE_AGE
        S1 == IF memoryHit /\ ~memoryValid
              THEN [S EXCEPT !.memoryCache = MapDelete(@, cacheKey)]
              ELSE S
        removed == [S1 EXCEPT !.localStorage = MapDelete(@, cacheKey)]
    IN  IF memoryValid THEN Returns(S, memoryCached)
        ELSE IF ~MapHas(S1.localStorage, cacheKey) THEN Returns(S1, Null)
        ELSE IF JSONparseThrows(S1.localStorage[cacheKey]) THEN Throws(S1)
        ELSE LET parsedCache == JSONparse(S1.localStorage[cacheKey])
             IN  IF parsedCache.version # CACHE_VERSION THEN Returns(removed, Null)
                 ELSE IF t - parsedCache.timestamp > MAX_CACHE_AGE THEN Returns(removed, Null)
                 ELSE Returns([S1 EXCEPT !.memoryCache = MapSet(@, cacheKey, parsedCache)],
                              parsedCache)

\* A read without the catch block: the failure of the durable tier leaves it.
getCachedDataUncaught(S, t, repoName, path) == getCachedDataTry(S, t, repoName, path)

\* A read that drops from both tiers the entry it returns.
getCachedDataConsuming(S, t, repoName, path) ==
    LET r == getCachedDataTry(S, t, repoName, path)
        cacheKey == getCacheKey(repoName, path)
    IN  IF r.threw THEN Returns(r.st, Null)
        ELSE Returns([r.st EXCEPT !.memoryCache = MapDelete(@, cacheKey),
                                  !.localStorage = MapDelete(@, cacheKey)], r.ret)

getCachedData(S, t, repoName, path) ==
    LET r == getCachedDataTry(S, t, repoName, path)
    IN  IF r.threw THEN Returns(r.st, Null) ELSE r

\* A store that schedules the durable write and leaves the memory tier alone.
setCachedDataDurableOnly(S, t, repoName, path, commitSha, filesArg, foldersArg) ==
    LET cacheKey == getCacheKey(repoName, path)
        cacheData == [files |-> filesArg, folders |-> foldersArg, path |-> path,
                      repoName |-> repoName, version |-> CACHE_VERSION, timestamp |-> t,
                      commitSha |-> commitSha, lastFetched |-> t]
    IN  Returns([S EXCEPT !.timers = Append(@, [repoName |-> repoName,
                                                cacheKey |-> cacheKey,
                                                commitSha |-> commitSha,
                                                cacheData |-> cacheData])],
                Null)

\* setCachedData up to its return: the entry is in the memory tier and the
\* durable write is scheduled.
setCachedData(S, t, repoName, path, commitSha, filesArg, foldersArg) ==
    LET cacheKey == getCacheKey(repoName, path)
        cacheData == [files |-> filesArg, folders |-> foldersArg, path |-> path,
                      repoName |-> repoName, version |-> CACHE_VERSION, timestamp |-> t,
                      commitSha |-> commitSha, lastFetched |-> t]
    IN  Returns([S EXCEPT !.memoryCache = MapSet(@, cacheKey, cacheData),
                          !.timers = Append(@, [repoName |-> repoName,
                                                cacheKey |-> cacheKey,
                                                commitSha |-> commitSha,
                                                cacheData |-> cacheData])],
                Null)

\* The try block of the callback setCachedData hands to setTimeout. quota
\* names the localStorage.setItem call that runs out of quota, if any.
deferredWriteTry(S, t, tm, quota) ==
    LET S1 == [S EXCEPT !.localStorage = MapSet(@, tm.cacheKey, JSONstringify(tm.cacheData))]
        commitCacheKey == getCommitCacheKey(tm.repoName)
        commitData == [version |-> CACHE_VERSION, timestamp |-> t, commitSha |-> tm.commitSha]
    IN  IF quota = "first" THEN Throws(S)
        ELSE IF quota = "second" THEN Throws(S1)
        ELSE Returns([S1 EXCEPT !.localStorage = MapSet(@, commitCacheKey, JSONstringify(commitData)),
                                !.commitCache = MapSet(@, tm.repoName, commitData)],
                     Null)

deferredWrite(S, t, tm, quota) ==
    LET r == deferredWriteTry(S, t, tm, quota)
    IN  IF r.threw THEN Returns(r.st, Null) ELSE r

\* The try block of getCachedCommitSha.
getCachedCommitShaTry(S, t, repoName) ==
    LET memoryHit == MapHas(S.commitCache, repoName)
        memoryCached == S.commitCache[repoName]
        memoryValid == /\ memoryHit
                       /\ memoryCached.version = CACHE_VERSION
                       /\ (t - memoryCached.timestamp) < MAX_CACHE_AGE
        S1 == IF memoryHit /\ ~memoryValid
              THEN [S EXCEPT !.commitCache = MapDelete(@, repoName)]
              ELSE S
        commitCacheKey == getCommitCacheKey(repoName)
    IN  IF memoryValid THEN Returns(S, memoryCached.commitSha)
        ELSE IF ~MapHas(S1.localStorage, commitCacheKey) THEN Returns(S1, Null)
        ELSE IF JSONparseThrows(S1.localStorage[commitCacheKey]) THEN Throws(S1)
        ELSE LET parsedCache == JSONparse(S1.localStorage[commitCacheKey])
             IN  IF t - parsedCache.timestamp > MAX_CACHE_AGE
                 THEN Returns([S1 EXCEPT !.localStorage = MapDelete(@, commitCacheKey)], Null)
                 ELSE Returns([S1 EXCEPT !.commitCache = MapSet(@, repoName, parsedCache)],
                              parsedCache.commitSha)

getCachedCommitSha(S, t, repoName) ==
    LET r == getCachedCommitShaTry(S, t, repoName)
    IN  IF r.threw THEN Returns(r.st, Null) ELSE r

clearRepositoryCache(S, repoName) ==
    LET memoryKeysToDelete == {key \in DOMAIN S.memoryCache :
                                  S.memoryCache[key].repoName = repoName}
        repoKeys == {key \in DOMAIN S.localStorage :
                        \/ IsPrefix(<<CACHE_PREFIX>> \o repoName \o <<"_">>, key)
                        \/ key = getCommitCacheKey(repoName)}
    IN  Returns([S EXCEPT
                    !.memoryCache = [key \in (DOMAIN @) \ memoryKeysToDelete |-> @[key]],
                    !.commitCache = MapDelete(@, repoName),
                    !.localStorage = [key \in (DOMAIN @) \ repoKeys |-> @[key]]],
                Null)

----------------------------------------------------------------------------
(* Initial state: a fresh page over a durable store that an earlier        *)
(* session, or an earlier release of the program, may have written.        *)

LegacyEntry ==
    [files |-> TreeListing(1, RootPath).files, folders |-> TreeListing(1, RootPath).folders,
     path |-> RootPath, repoName |-> RepoA, version |-> "0.9", timestamp |-> 0,
     commitSha |-> RealToken(1), lastFetched |-> 0]

\* The last-known token an earlier release of the program left behind.
LegacyCommit == [version |-> "0.9", timestamp |-> 0, commitSha |-> RealToken(1)]

\* What a session that ended half a day ago left behind.
EarlierEntry ==
    [files |-> TreeListing(1, DocsPath).files, folders |-> TreeListing(1, DocsPath).folders,
     path |-> DocsPath, repoName |-> RepoA, version |-> CACHE_VERSION,
     timestamp |-> 0 - TickStep, commitSha |-> RealToken(1), lastFetched |-> 0 - TickStep]

EarlierCommit ==
    [version |-> CACHE_VERSION, timestamp |-> 0 - TickStep, commitSha |-> RealToken(1)]

EarlierStore ==
    [k \in {getCacheKey(RepoA, DocsPath), getCommitCacheKey(RepoA)} |->
        IF k = getCommitCacheKey(RepoA) THEN JSONstringify(EarlierCommit)
        ELSE JSONstringify(EarlierEntry)]

InitialStores ==
    { << >>,
      [k \in {getCacheKey(RepoA, RootPath)} |-> CorruptText],
      [k \in {getCacheKey(RepoA, RootPath), getCommitCacheKey(RepoA)} |->
          IF k = getCommitCacheKey(RepoA) THEN JSONstringify(LegacyCommit)
          ELSE JSONstringify(LegacyEntry)],
      EarlierStore }

\* The remote repository: it does not exist, exists without a commit, exists
\* with commits 1..head on its branch, or exists with content while its branch
\* and history endpoints answer nothing usable; or the host cannot be reached
\* and every fetch rejects.
Remote(kind, head) == [kind |-> kind, head |-> head]

InitialRemotes ==
    {Remote("missing", 0), Remote("empty", 0), Remote("commits", 1), Remote("nohistory", 1),
     Remote("unreachable", 0)}

StoreInitial(stores) ==
    /\ now = 0
    /\ memoryCache = << >>
    /\ commitCache = << >>
    /\ localStorage \in stores
    /\ timers = << >>
    /\ cleared = {}

\* A workspace and the repository it keeps its files in.
Workspace(id, git_repo) == [id |-> id, git_repo |-> git_repo]

ViewInitial ==
    /\ currentWorkspace = Workspace(1, RepoA)
    /\ currentFolder = Null
    /\ files = << >>
    /\ folders = << >>
    /\ activeRequests = [loadContents |-> Null]
    /\ lastRequestedPaths = [loadContents |-> RootPath]
    /\ loads = << >>
    /\ aborted = {}
    /\ nextLoad = 1
    /\ lastLoad = Null
    /\ call = Null
    /\ user = Null
    /\ workspaces = << >>
    /\ workspaceMemoryCache = << >>
    /\ userMemoryCache = << >>

StoreInit == StoreInitial(InitialStores) /\ ViewInitial /\ remote = Remote("commits", 1)

Init == StoreInitial({<< >>, EarlierStore}) /\ ViewInitial /\ remote \in InitialRemotes

Apply(S) ==
    /\ memoryCache' = S.memoryCache
    /\ commitCache' = S.commitCache
    /\ localStorage' = S.localStorage
    /\ timers' = S.timers

Lookup(m, k) == IF MapHas(m, k) THEN m[k] ELSE Null

----------------------------------------------------------------------------
(* The cache module under arbitrary callers                                *)

CallGetCachedData(repoName, path) ==
    LET r == getCachedData(Store, now, repoName, path)
    IN  /\ Apply(r.st)
        /\ UNCHANGED <<now, cleared, compVars>>

CallSetCachedData(repoName, path, commitSha, listing) ==
    LET r == setCachedData(Store, now, repoName, path, commitSha,
                           listing.files, listing.folders)
    IN  /\ Len(timers) < MaxTimers
        /\ Apply(r.st)
        /\ cleared' = cleared \ {repoName}
        /\ UNCHANGED <<now, compVars>>

CallGetCachedCommitSha(repoName) ==
    LET r == getCachedCommitSha(Store, now, repoName)
    IN  /\ Apply(r.st)
        /\ UNCHANGED <<now, cleared, compVars>>

CallClearRepositoryCache(repoName) ==
    LET r == clearRepositoryCache(Store, repoName)
    IN  /\ Apply(r.st)
        /\ cleared' = cleared \cup {repoName}
        /\ UNCHANGED <<now, compVars>>

\* The event loop runs the oldest pending setTimeout callback.
RunTimer(quota) ==
    /\ timers # << >>
    /\ LET tm == Head(timers)
           r == deferredWrite([Store EXCEPT !.timers = Tail(@)], now, tm, quota)
       IN  Apply(r.st)
    /\ UNCHANGED <<now, cleared, compVars>>

\* Half the maximum age passes.  The deferred writes are scheduled with a zero
\* delay, so none is still pending when it has.
Tick ==
    /\ now < MaxTicks * TickStep
    /\ timers = << >>
    /\ now' = now + TickStep
    /\ UNCHANGED <<memoryCache, commitCache, localStorage, timers, cleared, compVars>>

\* The page is loaded anew: the module-level maps are constructed empty and
\* the callbacks of the page that was unloaded never run.
ModuleReload ==
    /\ memoryCache' = << >>
    /\ commitCache' = << >>
    /\ timers' = << >>
    /\ UNCHANGED <<now, localStorage, cleared>>

StoreReload == ModuleReload /\ UNCHANGED compVars

StoreNext ==
    \/ \E repoName \in Repos, path \in Paths : CallGetCachedData(repoName, path)
    \/ \E repoName \in Repos, path \in Paths, k \in {1, 2} :
            CallSetCachedData(repoName, path, RealToken(k), TreeListing(k, path))
    \/ \E repoName \in Repos : CallGetCachedCommitSha(repoName)
    \/ \E repoName \in Repos : CallClearRepositoryCache(repoName)
    \/ \E quota \in {"none", "first", "second"} : RunTimer(quota)
    \/ Tick
    \/ StoreReload

vars == <<now, memoryCache, commitCache, localStorage, timers, cleared, remote, currentWorkspace, currentFolder,
          files, folders, activeRequests, lastRequestedPaths, loads, aborted, nextLoad,
          lastLoad, call, accountVars>>

StoreSpec == StoreInit /\ [][StoreNext]_vars

----------------------------------------------------------------------------
(* The remote content host                                                 *)

\* Does the tree of commit k hold a folder at this path?
PathExists(k, path) == path = RootPath \/ k < 3

\* GET .../contents/<path>: the status and the body; status 0 stands for a
\* fetch that rejects.
ContentsResponse(r, path) ==
    IF r.kind = "unreachable" THEN [status |-> 0, body |-> Null]
    ELSE IF r.kind = "overloaded" THEN [status |-> 500, body |-> Null]
    ELSE IF r.kind \in {"commits", "nohistory"} /\ PathExists(r.head, path)
    THEN [status |-> 200, body |-> TreeListing(r.head, path)]
    ELSE [status |-> 404, body |-> Null]

\* What the endpoints of the remote answer to one resolution. branch, history,
\* defaultBranch and defaultHistory are "id" (an OK response that carries a
\* commit identifier), "none" (an OK response without one), "fail" (a non-OK
\* response) or "reject" (the fetch promise rejects); contents is "ok", "fail"
\* or "reject"; repo has a status of the same kind and, when it is "ok", the
\* default_branch (present or not) and empty fields of the repository.
RepoInfo(status, default_branch, empty) ==
    [status |-> status, default_branch |-> default_branch, empty |-> empty]

Responses(r) ==
    IF r.kind = "unreachable"
    THEN [head |-> r.head, branch |-> "reject", history |-> "reject",
          repo |-> RepoInfo("reject", FALSE, FALSE), defaultBranch |-> "reject",
          defaultHistory |-> "reject", contents |-> "reject"]
    ELSE
    [head |-> r.head,
     branch |-> IF r.kind \in {"commits", "overloaded"} THEN "id" ELSE "fail",
     history |-> IF r.kind \in {"commits", "overloaded"} THEN "id"
                 ELSE IF r.kind = "empty" THEN "none" ELSE "fail",
     repo |-> IF r.kind = "missing" THEN RepoInfo("fail", FALSE, FALSE)
              ELSE RepoInfo("ok", TRUE, r.kind = "empty"),
     defaultBranch |-> IF r.kind \in {"commits", "overloaded"} THEN "id" ELSE "fail",
     defaultHistory |-> IF r.kind \in {"commits", "overloaded"} THEN "id"
                        ELSE IF r.kind = "empty" THEN "none" ELSE "fail",
     contents |-> IF r.kind \in {"commits", "nohistory"} THEN "ok" ELSE "fail"]

Resolved(token, calls) == [ret |-> token, calls |-> calls]

\* Method 4 of getLatestCommitSha: the probe of the root listing.
ProbeContents(net, t, calls) ==
    IF net.contents = "ok"
    THEN Resolved(ContentsBasedToken(t), Append(calls, "contents"))
    ELSE Resolved(Null, Append(calls, "contents"))

\* A resolution that goes on to the probe whatever repository-info reports.
AfterRepoInfoProbeOnly(net, t, calls) == ProbeContents(net, t, calls)

\* Method 3 and what follows it, once repository-info has answered OK.
AfterRepoInfo(net, t, calls) ==
    IF net.repo.empty THEN Resolved(EmptyRepoToken(t), calls)
    ELSE ProbeContents(net, t, calls)

\* A resolution that asks the history endpoint before the branch endpoint.
getLatestCommitShaHistoryFirst(net, t) ==
    IF net.history = "id" THEN Resolved(RealToken(net.head), <<"commits">>)
    ELSE IF net.branch = "id" THEN Resolved(RealToken(net.head), <<"commits", "branches">>)
    ELSE Resolved(Null, <<"commits", "branches">>)

\* getLatestCommitSha against the answers net: the endpoints it asks, in
\* order, and what it returns. A rejected fetch is caught by the one catch
\* block of the function.
getLatestCommitShaOn(net, t) ==
    LET id == RealToken(net.head)
        c1 == <<"branches">>
        c2 == <<"branches", "commits">>
        c3 == <<"branches", "commits", "repo">>
        c4 == <<"branches", "commits", "repo", "branches">>
        c5 == <<"branches", "commits", "repo", "branches", "commits">>
    IN  IF net.branch = "reject" THEN Resolved(Null, c1)
        ELSE IF net.branch = "id" THEN Resolved(id, c1)
        ELSE IF net.history = "reject" THEN Resolved(Null, c2)
        ELSE IF net.history = "id" THEN Resolved(id, c2)
        ELSE IF net.repo.status = "reject" THEN Resolved(Null, c3)
        ELSE IF net.repo.status # "ok" THEN ProbeContents(net, t, c3)
        ELSE IF ~net.repo.default_branch THEN AfterRepoInfo(net, t, c3)
        ELSE IF net.defaultBranch = "reject" THEN Resolved(Null, c4)
        ELSE IF net.defaultBranch = "id" THEN Resolved(id, c4)
        ELSE IF net.defaultHistory = "reject" THEN Resolved(Null, c5)
        ELSE IF net.defaultHistory = "id" THEN Resolved(id, c5)
        ELSE AfterRepoInfo(net, t, c5)

\* An oracle that answers with the head of the branch without a request.
getLatestCommitShaSilent(r, t) ==
    [ret |-> IF r.kind = "commits" THEN RealToken(r.head) ELSE Null, calls |-> << >>]

\* getLatestCommitSha against the remote repository r.
getLatestCommitSha(r, t) == getLatestCommitShaOn(Responses(r), t)

\* A commit is pushed to the repository.
RemotePush ==
    /\ remote.kind = "commits"
    /\ remote.head < MaxCommits
    /\ remote' = [remote EXCEPT !.head = @ + 1]
    /\ UNCHANGED <<storeVars, cleared, currentFolder, files, folders, activeRequests,
                   lastRequestedPaths, loads, aborted, nextLoad, lastLoad, call, currentWorkspace, accountVars>>

\* The repository that answered no request is there: it was initialised, or
\* it is there again.
RemoteAppear ==
    /\ remote.kind = "missing"
    /\ remote' = Remote("commits", 1)
    /\ UNCHANGED <<storeVars, cleared, currentFolder, files, folders, activeRequests,
                   lastRequestedPaths, loads, aborted, nextLoad, lastLoad, call, currentWorkspace, accountVars>>

----------------------------------------------------------------------------
(* The file browser: loadContents and its callers                          *)

\* The repository of the second workspace on the remote content host.
OtherRemote == Remote("commits", 2)

\* The remote repository of this name.
RemoteOf(repoName) == IF repoName = RepoA THEN remote ELSE OtherRemote

Folder(path) == IF path = RootPath THEN Null ELSE [name |-> path[Len(path)], path |-> path]

PathOf(folder) == IF folder = Null THEN RootPath ELSE folder.path

AbortController(n) == [id |-> n]
RootAbortController(n) == [id |-> n, root |-> TRUE]

\* loadContents up to its first await, called with the view showing folder
\* of workspace.
loadContentsBegin(workspace, folder) ==
    LET path == PathOf(folder)
        repoName == workspace.git_repo
        active == activeRequests.loadContents
        abortController == AbortController(nextLoad)
    IN  /\ nextLoad <= MaxLoads
        /\ currentFolder' = folder
        /\ nextLoad' = nextLoad + 1
        /\ IF active # Null /\ lastRequestedPaths.loadContents = path
           THEN /\ loads' = MapSet(loads, nextLoad, [path |-> path, repoName |-> repoName,
                                                     pc |-> "waiting"])
                /\ UNCHANGED <<activeRequests, lastRequestedPaths, aborted>>
           ELSE /\ aborted' = IF active # Null THEN aborted \cup {active} ELSE aborted
                /\ lastRequestedPaths' = [lastRequestedPaths EXCEPT !.loadContents = path]
                /\ activeRequests' = [activeRequests EXCEPT !.loadContents = abortController]
                /\ loads' = MapSet(loads, nextLoad,
                                   [path |-> path, repoName |-> repoName, calls |-> << >>,
                                    abortController |-> abortController,
                                    pc |-> "oracle", latestCommitSha |-> Null,
                                    prev |-> IF lastLoad = Null THEN Null
                                             ELSE [lastLoad EXCEPT !.prev = Null],
                                    url |-> repoName])
        /\ UNCHANGED <<lastLoad, remote, now>>

BeginLoad(folder) ==
    /\ loadContentsBegin(currentWorkspace, folder)
    /\ UNCHANGED <<files, folders, currentWorkspace, call, accountVars>>

\* Any caller that reloads the folder on show (after an upload, a rename, ...).
LoadContents ==
    /\ BeginLoad(currentFolder)
    /\ UNCHANGED <<memoryCache, commitCache, localStorage, timers, cleared>>

navigateToFolder(folder) ==
    /\ folder # Null
    /\ PathOf(currentFolder) # folder.path
    /\ BeginLoad(folder)
    /\ UNCHANGED <<memoryCache, commitCache, localStorage, timers, cleared>>

navigateToRoot ==
    /\ BeginLoad(Null)
    /\ UNCHANGED <<memoryCache, commitCache, localStorage, timers, cleared>>

\* refreshCache up to the first await of the loadContents it calls.
refreshCacheBegin ==
    /\ Apply(clearRepositoryCache(Store, currentWorkspace.git_repo).st)
    /\ cleared' = cleared \cup {currentWorkspace.git_repo}
    /\ loadContentsBegin(currentWorkspace, currentFolder)
    /\ UNCHANGED <<files, folders, currentWorkspace, accountVars>>

refreshCache == refreshCacheBegin /\ UNCHANGED call

\* The finally block of loadContents, and the record of what the call did.
Finish(n, outcome, latestCommitSha, cachedData, calls, filesShown, foldersShown, S1, fresh, notice) ==
    /\ loads' = MapDelete(loads, n)
    /\ aborted' = aborted \ {AbortController(n), RootAbortController(n)}
    /\ activeRequests' = [activeRequests EXCEPT !.loadContents =
                              IF @ = loads[n].abortController THEN Null ELSE @]
    /\ lastLoad' = [remote |-> remote, files |-> filesShown, folders |-> foldersShown,
                    n |-> n, path |-> loads[n].path, calls |-> calls,
                    latestCommitSha |-> latestCommitSha, prev |-> loads[n].prev,
                    outcome |-> outcome, cachedData |-> cachedData,
                    fresh |-> fresh, notice |-> notice,
                    entryAfter |-> getCachedData(S1, now, loads[n].repoName,
                                                 loads[n].path).ret]

\* getLatestCommitSha answers; steps 2 and 3 of loadContents follow at once.
OracleReturn(n) ==
    /\ MapHas(loads, n) /\ loads[n].pc = "oracle"
    /\ LET f == loads[n]
           res == getLatestCommitSha(RemoteOf(f.repoName), now)
           latestCommitSha == res.ret
           stored == getCachedCommitSha(Store, now, f.repoName)
           storedCommitSha == stored.ret
           cached == getCachedData(stored.st, now, f.repoName, f.path)
           cachedData == cached.ret
           \* loadContentsDirectly builds its url for the workspace of the moment
           direct == [f EXCEPT !.pc = "direct", !.calls = res.calls,
                               !.url = currentWorkspace.git_repo]
           fetch == [f EXCEPT !.pc = "listing", !.latestCommitSha = latestCommitSha,
                              !.calls = res.calls, !.url = currentWorkspace.git_repo]
       IN  IF latestCommitSha = Null
           THEN /\ loads' = MapSet(loads, n, direct)
                /\ UNCHANGED <<storeVars, files, folders, activeRequests, lastLoad, aborted>>
           ELSE IF storedCommitSha # Null /\ storedCommitSha = latestCommitSha
           THEN IF cachedData # Null
                THEN /\ Apply(cached.st)
                     /\ files' = cachedData.files
                     /\ folders' = cachedData.folders
                     /\ Finish(n, "hit", latestCommitSha, cachedData, res.calls,
                               cachedData.files, cachedData.folders, cached.st, FALSE,
                               "none")
                     /\ UNCHANGED now
                ELSE /\ Apply(cached.st)
                     /\ loads' = MapSet(loads, n, fetch)
                     /\ UNCHANGED <<now, files, folders, activeRequests, lastLoad, aborted>>
           ELSE /\ Apply(stored.st)
                /\ loads' = MapSet(loads, n, fetch)
                /\ UNCHANGED <<now, files, folders, activeRequests, lastLoad, aborted>>
    /\ UNCHANGED <<cleared, remote, currentWorkspace, currentFolder, lastRequestedPaths, nextLoad, call, accountVars>>

\* A try block in which a 404 is a failed response like any other.
loadContentsDirectlyTryOkOnly(response) ==
    IF response.status = 200 THEN [ret |-> TRUE, threw |-> FALSE]
    ELSE [ret |-> Null, threw |-> TRUE]

\* The try block of loadContentsDirectly, for a request that was not aborted
\* and is not redirected to the root: a rejected fetch and a status other
\* than 200 and 404 throw.
loadContentsDirectlyTry(response) ==
    IF response.status \in {200, 404} THEN [ret |-> TRUE, threw |-> FALSE]
    ELSE [ret |-> Null, threw |-> TRUE]

\* A loadContentsDirectly that lets the exception out.
loadContentsDirectlyUncaught(response) == loadContentsDirectlyTry(response)

\* loadContentsDirectly: its catch block reports the error and returns false.
loadContentsDirectly(response) ==
    IF loadContentsDirectlyTry(response).threw THEN [ret |-> FALSE, threw |-> FALSE]
    ELSE loadContentsDirectlyTry(response)

\* What loadContentsDirectly shows the user for a request that was not
\* aborted and is not redirected: ElMessage.error from its catch block.
ElMessage(response) ==
    IF loadContentsDirectlyTry(response).threw THEN "error" ELSE "none"

\* Step 5 of loadContents: loadContentsDirectly returned true.
StoreFresh(f, filesShown, foldersShown) ==
    IF f.pc = "direct" THEN Store
    ELSE setCachedData(Store, now, f.repoName, f.path, f.latestCommitSha,
                       filesShown, foldersShown).st

\* loadContentsDirectly: the contents request for the path of the load settles.
ListingReturn(n) ==
    /\ MapHas(loads, n) /\ loads[n].pc \in {"listing", "direct"}
    /\ LET f == loads[n]
           response == ContentsResponse(RemoteOf(f.url), f.path)
           calls == Append(f.calls, "listing")
       IN  IF f.abortController \in aborted
           THEN /\ Finish(n, "aborted", f.latestCommitSha, Null, f.calls, files, folders,
                          Store, FALSE, "none")
                /\ UNCHANGED <<storeVars, cleared, files, folders, currentFolder>>
           ELSE IF response.status = 404 /\ f.path # RootPath /\ currentFolder # Null
           THEN /\ files' = << >>
                /\ folders' = << >>
                /\ currentFolder' = Null
                /\ activeRequests' = [activeRequests EXCEPT
                                         !.loadContents = RootAbortController(n)]
                /\ loads' = MapSet(loads, n, [f EXCEPT !.pc = "root", !.calls = calls,
                                                        !.url = currentWorkspace.git_repo])
                /\ UNCHANGED <<storeVars, cleared, lastLoad, aborted>>
           ELSE LET freshData == loadContentsDirectly(response)
                    fresh == ~freshData.threw /\ freshData.ret
                    filesShown == IF ~fresh THEN files
                                  ELSE IF response.status = 404 THEN << >>
                                  ELSE response.body.files
                    foldersShown == IF ~fresh THEN folders
                                    ELSE IF response.status = 404 THEN << >>
                                    ELSE response.body.folders
                    S1 == IF fresh THEN StoreFresh(f, filesShown, foldersShown) ELSE Store
                    \* an exception out of loadContentsDirectly would reach the
                    \* catch block of loadContents, which calls it once more
                    outcome == IF freshData.threw THEN "raised"
                               ELSE IF f.pc = "direct" THEN "direct"
                               ELSE IF fresh THEN "stored" ELSE "failed"
                IN  /\ files' = filesShown
                    /\ folders' = foldersShown
                    /\ Apply(S1)
                    /\ cleared' = IF f.pc = "direct" \/ ~fresh THEN cleared
                                  ELSE cleared \ {f.repoName}
                    /\ Finish(n, outcome, f.latestCommitSha, Null,
                              IF freshData.threw THEN Append(calls, "listing") ELSE calls,
                              filesShown, foldersShown, S1, fresh, ElMessage(response))
                    /\ UNCHANGED <<now, currentFolder>>
    /\ UNCHANGED <<remote, currentWorkspace, lastRequestedPaths, nextLoad, call, accountVars>>

\* loadContentsDirectly after a 404 for a folder: the request for the root settles.
RootListingReturn(n) ==
    /\ MapHas(loads, n) /\ loads[n].pc = "root"
    /\ LET f == loads[n]
           rootResponse == ContentsResponse(RemoteOf(f.url), RootPath)
           calls == Append(f.calls, "listing")
           direct == f.latestCommitSha = Null
           g == [f EXCEPT !.pc = IF direct THEN "direct" ELSE "listing"]
       IN  IF RootAbortController(n) \in aborted
           THEN /\ Finish(n, "aborted", f.latestCommitSha, Null, f.calls, files, folders,
                          Store, FALSE, "warning")
                /\ UNCHANGED <<storeVars, cleared, files, folders>>
           ELSE LET filesShown == IF rootResponse.status = 200
                                  THEN rootResponse.body.files ELSE files
                    foldersShown == IF rootResponse.status = 200
                                    THEN rootResponse.body.folders ELSE folders
                    \* a rejected request for the root ends in the catch block
                    fresh == rootResponse.status # 0
                    S1 == IF fresh THEN StoreFresh(g, filesShown, foldersShown) ELSE Store
                IN  /\ files' = filesShown
                    /\ folders' = foldersShown
                    /\ Apply(S1)
                    /\ cleared' = IF direct \/ ~fresh THEN cleared
                                  ELSE cleared \ {f.repoName}
                    /\ Finish(n, IF direct THEN "direct"
                                 ELSE IF fresh THEN "stored" ELSE "failed",
                              f.latestCommitSha, Null, calls, filesShown, foldersShown,
                              S1, fresh, IF fresh THEN "warning" ELSE "error")
                    /\ UNCHANGED now
    /\ UNCHANGED <<remote, currentWorkspace, currentFolder, lastRequestedPaths, nextLoad, call, accountVars>>

\* A loadContents that found the same path in flight sees the slot free and returns.
WaitReturn(n) ==
    /\ MapHas(loads, n) /\ loads[n].pc = "waiting"
    /\ activeRequests.loadContents = Null
    /\ loads' = MapDelete(loads, n)
    /\ UNCHANGED <<storeVars, cleared, remote, currentWorkspace, currentFolder, files, folders, activeRequests,
                   lastRequestedPaths, aborted, nextLoad, lastLoad, call, accountVars>>

\* The page is loaded anew: the component is mounted again and nothing that
\* was in flight comes back.
PageReload ==
    /\ ModuleReload
    /\ currentFolder' = Null
    /\ files' = << >>
    /\ folders' = << >>
    /\ activeRequests' = [loadContents |-> Null]
    /\ lastRequestedPaths' = [loadContents |-> RootPath]
    /\ loads' = << >>
    /\ aborted' = {}
    /\ lastLoad' = Null
    /\ UNCHANGED <<remote, currentWorkspace, nextLoad, call, accountVars>>

Loads == 1..MaxLoads

Next ==
    \/ LoadContents
    \/ \E path \in Paths : navigateToFolder(Folder(path))
    \/ navigateToRoot
    \/ refreshCache
    \/ \E n \in Loads : OracleReturn(n)
    \/ \E n \in Loads : ListingReturn(n)
    \/ \E n \in Loads : RootListingReturn(n)
    \/ \E n \in Loads : WaitReturn(n)
    \/ \E quota \in {"none", "first", "second"} : RunTimer(quota)
    \/ RemotePush
    \/ RemoteAppear
    \/ Tick
    \/ PageReload

Spec == Init /\ [][Next]_vars

----------------------------------------------------------------------------
(* Properties of loadContents                                              *)

ServedFromCache(l) == l # Null /\ l.outcome = "hit"

IsPlaceholder(token) == token.flavor \in {"empty-repo-", "contents-based-"}

\* The load that returned last was the call right after the load l.prev, which
\* had returned before it started, and both were for the same path.
SecondLoad(l) ==
    /\ l # Null
    /\ l.prev # Null
    /\ l.prev.n + 1 = l.n
    /\ l.prev.path = l.path

\* C1: whenever loadContents serves the listing of a path from the cache, the
\* served entry was stored under the token the Commit Oracle returned for this
\* load: an entry stored under a real token T1 is never served when the oracle
\* returns a real token T2 # T1.
C1_ServedUnderOracleToken ==
    (/\ ServedFromCache(lastLoad)
     /\ lastLoad.latestCommitSha.flavor = "sha"
     /\ lastLoad.cachedData.commitSha.flavor = "sha") =>
        lastLoad.cachedData.commitSha = lastLoad.latestCommitSha

\* C2: a load served from the cache leaves the entry of its path as it found
\* it, and of two consecutive loads of one path served from the cache under one
\* token the second finds the entry the first left and shows the same files and
\* the same folders.
C2_CacheHitIdempotent ==
    ServedFromCache(lastLoad) =>
        /\ lastLoad.entryAfter = lastLoad.cachedData
        /\ (SecondLoad(lastLoad) /\ ServedFromCache(lastLoad.prev)
                /\ lastLoad.prev.latestCommitSha = lastLoad.latestCommitSha) =>
            /\ lastLoad.cachedData = lastLoad.prev.entryAfter
            /\ lastLoad.files = lastLoad.prev.files
            /\ lastLoad.folders = lastLoad.prev.folders

C2_Witness ==
    /\ ServedFromCache(lastLoad)
    /\ SecondLoad(lastLoad)
    /\ ServedFromCache(lastLoad.prev)
    /\ lastLoad.prev.latestCommitSha = lastLoad.latestCommitSha
    /\ lastLoad.files # << >>
    /\ files = lastLoad.files

\* The second load of a path whose first load fetched and stored the listing,
\* with the remote as the first load left it.
SecondLoadUnchangedRemote ==
    /\ SecondLoad(lastLoad)
    /\ lastLoad.prev.outcome = "stored"
    /\ lastLoad.remote = lastLoad.prev.remote

C4_PlaceholderIsMiss ==
    ServedFromCache(lastLoad) =>
        /\ ~IsPlaceholder(lastLoad.latestCommitSha)
        /\ ~IsPlaceholder(lastLoad.cachedData.commitSha)

Asked(calls, endpoint) == \E i \in 1..Len(calls) : calls[i] = endpoint

\* A step of load n taken after getLatestCommitSha returned null to it: the
\* return of the oracle itself, and the settling of the listing requests.
OracleAbsentStep(n) ==
    /\ MapHas(loads, n)
    /\ \/ /\ loads[n].pc = "oracle"
          /\ MapHas(loads', n)
          /\ loads'[n].pc = "direct"
       \/ /\ loads[n].pc = "direct" \/ (loads[n].pc = "root" /\ loads[n].latestCommitSha = Null)
          /\ \/ MapHas(loads', n) /\ loads'[n] # loads[n]
             \/ ~MapHas(loads', n) /\ lastLoad' # Null /\ lastLoad'.n = n

\* C16: when getLatestCommitSha returns null, loadContents goes on to the
\* direct listing fetch, no exception leaves it, and none of its steps writes
\* to either tier of the cache or schedules a write.
C16_OracleAbsentDirect ==
    [][\A n \in Loads :
          OracleAbsentStep(n) =>
              /\ UNCHANGED <<memoryCache, commitCache, localStorage, timers>>
              /\ ~MapHas(loads', n) =>
                    /\ lastLoad'.latestCommitSha = Null
                    /\ lastLoad'.outcome \in {"direct", "aborted"}
                    /\ lastLoad'.outcome = "direct" => Asked(lastLoad'.calls, "listing")]_vars

C16_Witness ==
    /\ lastLoad # Null
    /\ lastLoad.outcome = "direct"
    /\ lastLoad.remote.kind = "unreachable"
    /\ lastLoad.calls = <<"branches", "listing">>
    /\ localStorage # << >>

\* C17: once a load of the repository has found the oracle absent, no later
\* load of the session is served from the cache or writes to it.
C17_UncacheableForSession ==
    (lastLoad # Null /\ lastLoad.prev # Null /\ lastLoad.prev.outcome = "direct") =>
        lastLoad.outcome \notin {"hit", "stored"}

----------------------------------------------------------------------------
(* Properties of the two-tier store                                        *)

\* The validity rule: the schema version is current and the age is below the maximum.
ValidEntry(e, t) == e.version = CACHE_VERSION /\ (t - e.timestamp) < MAX_CACHE_AGE

MemoryEntry(repoName, path) == Lookup(memoryCache, getCacheKey(repoName, path))

\* The entry the durable tier holds for (repoName, path), if it holds one that parses.
DurableEntry(repoName, path) ==
    LET key == getCacheKey(repoName, path)
    IN  IF MapHas(localStorage, key) /\ ~JSONparseThrows(localStorage[key])
        THEN JSONparse(localStorage[key])
        ELSE Null

MemoryValid(repoName, path) ==
    MemoryEntry(repoName, path) # Null /\ ValidEntry(MemoryEntry(repoName, path), now)

DurableValid(repoName, path) ==
    DurableEntry(repoName, path) # Null /\ ValidEntry(DurableEntry(repoName, path), now)

\* C5: getCachedData returns an entry exactly when a tier holds a valid one, and
\* what it returns is valid by the one rule (version current, age below
\* MAX_CACHE_AGE), whichever tier it was found in.
C5_UniformValidity ==
    \A repoName \in Repos, path \in Paths :
        LET ret == getCachedData(Store, now, repoName, path).ret
        IN  /\ ret # Null <=> (MemoryValid(repoName, path) \/ DurableValid(repoName, path))
            /\ ret # Null => ValidEntry(ret, now)

\* C6: a getCachedData that finds an invalid entry (in the memory tier, or in the
\* durable tier when it gets that far) returns null and leaves no entry for the
\* key in either tier.
C6_LazyEviction ==
    \A repoName \in Repos, path \in Paths :
        LET key == getCacheKey(repoName, path)
            r == getCachedData(Store, now, repoName, path)
            foundInvalid ==
                \/ MemoryEntry(repoName, path) # Null /\ ~MemoryValid(repoName, path)
                \/ /\ ~MemoryValid(repoName, path)
                   /\ DurableEntry(repoName, path) # Null
                   /\ ~DurableValid(repoName, path)
        IN  foundInvalid =>
                /\ r.ret = Null
                /\ ~MapHas(r.st.memoryCache, key)
                /\ ~MapHas(r.st.localStorage, key)

\* C7: a getCachedData that follows setCachedData(repo, P, token, files, folders)
\* at once, with the durable write still pending, returns those files, those
\* folders and commitSha = token.
C7_ReadYourWrite ==
    \A repoName \in Repos, path \in Paths, k \in {1, 2}, c \in {1, 2} :
        LET listing == TreeListing(c, path)
            afterSet == setCachedData(Store, now, repoName, path, RealToken(k),
                                      listing.files, listing.folders).st
            got == getCachedData(afterSet, now, repoName, path).ret
        IN  /\ Len(afterSet.timers) = Len(timers) + 1
            /\ afterSet.localStorage = localStorage
            /\ got # Null
            /\ got.files = listing.files
            /\ got.folders = listing.folders
            /\ got.commitSha = RealToken(k)

\* A setCachedData has returned and its durable write is pending: the entry is
\* in the memory tier only, and getCachedData serves it.
C7_Witness ==
    /\ timers # << >>
    /\ LET tm == timers[Len(timers)]
       IN  /\ ~MapHas(localStorage, tm.cacheKey)
           /\ getCachedData(Store, now, tm.repoName, tm.cacheData.path).ret = tm.cacheData
           /\ tm.cacheData.files # << >>

\* C8: no call of the store lets a durable-tier failure out: unparsable durable
\* text reads as a miss, the deferred write swallows a quota failure and leaves
\* the memory tier alone, and the entry whose write failed is still served.
C8_DurableFailuresSwallowed ==
    /\ \A repoName \in Repos, path \in Paths :
          LET key == getCacheKey(repoName, path)
              r == getCachedData(Store, now, repoName, path)
          IN  /\ ~r.threw
              /\ (/\ ~MemoryValid(repoName, path)
                  /\ MapHas(localStorage, key)
                  /\ JSONparseThrows(localStorage[key])) => r.ret = Null
    /\ \A repoName \in Repos : ~getCachedCommitSha(Store, now, repoName).threw
    /\ timers # << >> =>
          \A quota \in {"none", "first", "second"} :
              LET tm == Head(timers)
                  r == deferredWrite([Store EXCEPT !.timers = Tail(@)], now, tm, quota)
                  held == Lookup(memoryCache, tm.cacheKey)
              IN  /\ ~r.threw
                  /\ r.st.memoryCache = memoryCache
                  /\ (quota # "none" /\ held # Null /\ ValidEntry(held, now)) =>
                        getCachedData(r.st, now, tm.repoName, tm.cacheData.path).ret = held

\* The durable tier holds unparsable text for a key whose entry lives on in the
\* memory tier, its durable write having failed, and getCachedData serves it.
C8_Witness ==
    \E repoName \in Repos, path \in Paths :
        LET key == getCacheKey(repoName, path)
        IN  /\ timers = << >>
            /\ MapHas(localStorage, key)
            /\ JSONparseThrows(localStorage[key])
            /\ MemoryValid(repoName, path)
            /\ getCachedData(Store, now, repoName, path).ret = memoryCache[key]

\* C9: once the deferred continuation of setCachedData(repo, P, token, ...) has
\* run, getCachedCommitSha(repo) returns token, whether or not the durable tier
\* took the write.
C9_LastKnownTokenUpdated ==
    timers # << >> =>
        \A quota \in {"none", "first", "second"} :
            LET tm == Head(timers)
                r == deferredWrite([Store EXCEPT !.timers = Tail(@)], now, tm, quota)
            IN  getCachedCommitSha(r.st, now, tm.repoName).ret = tm.commitSha

\* C10: from clearRepositoryCache(repo) until the next setCachedData for repo,
\* neither tier holds anything of repo: getCachedData is null for every path
\* and getCachedCommitSha is null.
C10_ClearedStaysCleared ==
    \A repoName \in cleared :
        /\ \A path \in Paths :
              /\ getCachedData(Store, now, repoName, path).ret = Null
              /\ ~MapHas(memoryCache, getCacheKey(repoName, path))
              /\ ~MapHas(localStorage, getCacheKey(repoName, path))
        /\ getCachedCommitSha(Store, now, repoName).ret = Null
        /\ ~MapHas(commitCache, repoName)
        /\ ~MapHas(localStorage, getCommitCacheKey(repoName))

----------------------------------------------------------------------------
(* Several repositories, and a folder named like the key of the root       *)

\* A repository whose name is the name of RepoA, an underscore, and more.
RepoAB == <<"a", "_", "b">>
AllRepos == {RepoA, RepoAB}

\* The folder "root" at the top of a repository.
RootNamedPath == <<"root">>
AllPaths == {RootPath, RootNamedPath, DocsPath}

Normalised(path) == StripTrailing(StripLeading(path))

IsolationInit == StoreInitial({<< >>}) /\ ViewInitial /\ remote = Remote("commits", 1)

IsolationNext ==
    \/ \E repoName \in AllRepos, path \in AllPaths : CallGetCachedData(repoName, path)
    \/ \E repoName \in AllRepos, path \in AllPaths :
            CallSetCachedData(repoName, path, RealToken(1), TreeListing(1, path))
    \/ \E repoName \in AllRepos : CallGetCachedCommitSha(repoName)
    \/ \E repoName \in AllRepos : CallClearRepositoryCache(repoName)
    \/ \E quota \in {"none", "first", "second"} : RunTimer(quota)
    \/ StoreReload

IsolationSpec == IsolationInit /\ [][IsolationNext]_vars

\* C11: clearRepositoryCache(R) leaves every entry and the last-known token of
\* every other repository as they were, in the memory maps and in localStorage.
C11_RepositoryIsolation ==
    \A R \in AllRepos, other \in AllRepos :
        R # other =>
            LET S1 == clearRepositoryCache(Store, R).st
                commitCacheKey == getCommitCacheKey(other)
            IN  /\ Lookup(S1.commitCache, other) = Lookup(commitCache, other)
                /\ Lookup(S1.localStorage, commitCacheKey) = Lookup(localStorage, commitCacheKey)
                /\ \A path \in AllPaths :
                    LET cacheKey == getCacheKey(other, path)
                    IN  /\ Lookup(S1.memoryCache, cacheKey) = Lookup(memoryCache, cacheKey)
                        /\ Lookup(S1.localStorage, cacheKey) = Lookup(localStorage, cacheKey)

\* C12: setCachedData(R, P, ...), its deferred write included, does not change
\* what getCachedData returns for a pair whose repository or normalised path
\* differs from (R, P), nor what getCachedCommitSha returns for another repository.
C12_PathsIndependent ==
    \A R \in AllRepos, P \in AllPaths, other \in AllRepos, Q \in AllPaths :
        (other # R \/ Normalised(Q) # Normalised(P)) =>
            LET S1 == setCachedData(Store, now, R, P, RealToken(2),
                                    TreeListing(2, P).files, TreeListing(2, P).folders).st
                tm == S1.timers[Len(S1.timers)]
                S2 == deferredWrite([S1 EXCEPT !.timers = SubSeq(@, 1, Len(@) - 1)],
                                    now, tm, "none").st
            IN  /\ getCachedData(S1, now, other, Q).ret = getCachedData(Store, now, other, Q).ret
                /\ getCachedData(S2, now, other, Q).ret = getCachedData(Store, now, other, Q).ret
                /\ other # R =>
                    getCachedCommitSha(S2, now, other).ret
                        = getCachedCommitSha(Store, now, other).ret

----------------------------------------------------------------------------
(* The diff path: getCommitChanges and applyChangesToCache                 *)

\* The marker that getCommitChanges returns in place of a changeset.
RefreshNeeded == [files |-> <<[status |-> "refresh-needed"]>>, commits |-> << >>]

\* An entry of the files array of a compare response.
Change(filename, status, sha, additions, deletions) ==
    [sha |-> sha, status |-> status, filename |-> filename,
     additions |-> additions, deletions |-> deletions]

\* String.prototype.startsWith on a commit token; a token that is null or
\* undefined throws a TypeError.
startsWithPseudo(token) == token.flavor \in {"empty-repo-", "contents-based-"}

\* A getCommitChanges that goes to the compare endpoint whatever the tokens are.
getCommitChangesAlwaysCompare(compare, fromCommit, toCommit) ==
    IF compare.status = "ok"
    THEN Resolved([files |-> compare.files, commits |-> << >>], <<"compare">>)
    ELSE Resolved(RefreshNeeded, <<"compare">>)

\* getCommitChanges against the answer compare of the compare endpoint: what
\* it returns and the requests it made. compare.files is compareData.files || [],
\* and the commits of the response are left out.
getCommitChanges(compare, fromCommit, toCommit) ==
    IF fromCommit = Null THEN Resolved(RefreshNeeded, << >>)
    ELSE IF startsWithPseudo(fromCommit) THEN Resolved(RefreshNeeded, << >>)
    ELSE IF toCommit = Null THEN Resolved(RefreshNeeded, << >>)
    ELSE IF startsWithPseudo(toCommit) THEN Resolved(RefreshNeeded, << >>)
    ELSE IF compare.status = "ok"
    THEN Resolved([files |-> compare.files, commits |-> << >>], <<"compare">>)
    ELSE Resolved(RefreshNeeded, <<"compare">>)

\* Array.prototype.findIndex(f => f.name === fileName); 0 stands for -1.
RECURSIVE findIndex(_, _, _)
findIndex(items, fileName, i) ==
    IF i > Len(items) THEN 0
    ELSE IF items[i].name = fileName THEN i
    ELSE findIndex(items, fileName, i + 1)

\* Array.prototype.splice(index, 1)
splice(items, index) == SubSeq(items, 1, index - 1) \o SubSeq(items, index + 1, Len(items))

\* String.prototype.split('/').pop()
pop(s) == IF s = << >> THEN "" ELSE s[Len(s)]

includesSlash(s) == \E i \in 1..Len(s) : s[i] = "/"

\* An update that pushes the new entry and leaves an existing one in place.
updateFileInCachePushOnly(filesArg, change, fullPath) ==
    Append(filesArg, FileItem(pop(fullPath), fullPath, change.sha,
                              change.additions + change.deletions))

\* updateFileInCache: the files array it leaves.
updateFileInCache(filesArg, change, fullPath) ==
    LET fileName == pop(fullPath)
        existingIndex == findIndex(filesArg, fileName, 1)
        kept == IF existingIndex # 0 THEN splice(filesArg, existingIndex) ELSE filesArg
    IN  Append(kept, FileItem(fileName, fullPath, change.sha,
                              change.additions + change.deletions))

\* A removal that takes the name out of the files array only.
removeFileFromCacheFilesOnly(filesArg, foldersArg, relativePath) ==
    LET fileName == pop(relativePath)
        fileIndex == findIndex(filesArg, fileName, 1)
    IN  [files |-> IF fileIndex # 0 THEN splice(filesArg, fileIndex) ELSE filesArg,
         folders |-> foldersArg]

\* removeFileFromCache: the files and folders arrays it leaves.
removeFileFromCache(filesArg, foldersArg, relativePath) ==
    LET fileName == pop(relativePath)
        fileIndex == findIndex(filesArg, fileName, 1)
        folderIndex == findIndex(foldersArg, fileName, 1)
    IN  [files |-> IF fileIndex # 0 THEN splice(filesArg, fileIndex) ELSE filesArg,
         folders |-> IF folderIndex # 0 THEN splice(foldersArg, folderIndex)
                     ELSE foldersArg]

\* A loop body that does not skip the changes in subdirectories.
applyChangeDeep(path, change, filesArg, foldersArg) ==
    LET pathPrefix == IF path # << >> THEN path \o <<"/">> ELSE << >>
        same == [files |-> filesArg, folders |-> foldersArg, threw |-> FALSE]
    IN  IF "filename" \notin DOMAIN change
        THEN [files |-> filesArg, folders |-> foldersArg, threw |-> TRUE]
        ELSE LET filePath == change.filename
                 relativePath == IF path # << >>
                                 THEN SubSeq(filePath, Len(pathPrefix) + 1, Len(filePath))
                                 ELSE filePath
                 removed == removeFileFromCache(filesArg, foldersArg, relativePath)
             IN  IF path # << >> /\ ~IsPrefix(pathPrefix, filePath) THEN same
                 ELSE IF change.status \in {"added", "modified"}
                 THEN [files |-> updateFileInCache(filesArg, change, filePath),
                       folders |-> foldersArg, threw |-> FALSE]
                 ELSE IF change.status = "removed"
                 THEN [files |-> removed.files, folders |-> removed.folders,
                       threw |-> FALSE]
                 ELSE same

\* The body of the for loop of applyChangesToCache for one change: the arrays
\* it leaves, and whether it threw (a change without a filename makes
\* filePath.startsWith, or relativePath.includes, throw a TypeError).
applyChange(path, change, filesArg, foldersArg) ==
    LET pathPrefix == IF path # << >> THEN path \o <<"/">> ELSE << >>
        same == [files |-> filesArg, folders |-> foldersArg, threw |-> FALSE]
    IN  IF "filename" \notin DOMAIN change
        THEN [files |-> filesArg, folders |-> foldersArg, threw |-> TRUE]
        ELSE LET filePath == change.filename
                 relativePath == IF path # << >>
                                 THEN SubSeq(filePath, Len(pathPrefix) + 1, Len(filePath))
                                 ELSE filePath
                 removed == removeFileFromCache(filesArg, foldersArg, relativePath)
             IN  IF path # << >> /\ ~IsPrefix(pathPrefix, filePath) THEN same
                 ELSE IF includesSlash(relativePath) THEN same
                 ELSE IF change.status \in {"added", "modified"}
                 THEN [files |-> updateFileInCache(filesArg, change, filePath),
                       folders |-> foldersArg, threw |-> FALSE]
                 ELSE IF change.status = "removed"
                 THEN [files |-> removed.files, folders |-> removed.folders,
                       threw |-> FALSE]
                 ELSE same

\* The try block of applyChangesToCache from change i on: files and folders
\* are the arrays of cachedData itself, changed in place.
RECURSIVE applyChangesToCacheTry(_, _, _, _, _)
applyChangesToCacheTry(path, changeList, i, filesArg, foldersArg) ==
    IF i > Len(changeList)
    THEN [files |-> filesArg, folders |-> foldersArg, threw |-> FALSE]
    ELSE LET step == applyChange(path, changeList[i], filesArg, foldersArg)
         IN  IF step.threw THEN step
             ELSE applyChangesToCacheTry(path, changeList, i + 1, step.files, step.folders)

\* applyChangesToCache: { files, folders }, or cachedData from the catch block
\* with its arrays as the loop left them.
applyChangesToCache(repoName, path, changes, cachedData) ==
    LET done == applyChangesToCacheTry(path, changes.files, 1,
                                       cachedData.files, cachedData.folders)
    IN  IF done.threw
        THEN [cachedData EXCEPT !.files = done.files, !.folders = done.folders]
        ELSE [files |-> done.files, folders |-> done.folders]

----------------------------------------------------------------------------
(* Search over the cached listings. A name is a sequence of atoms; an atom *)
(* is a run of characters that the search terms of the model never split.  *)

\* String.prototype.toLowerCase, atom by atom.
LowerAtom(atom) == IF atom = "Report" THEN "report" ELSE atom
toLowerCase(str) == [i \in 1..Len(str) |-> LowerAtom(str[i])]

\* String.prototype.includes
includes(str, part) ==
    \E i \in 0..(Len(str) - Len(part)) : SubSeq(str, i + 1, i + Len(part)) = part

\* String.prototype.trim
RECURSIVE trim(_)
trim(str) ==
    IF str # << >> /\ Head(str) = " " THEN trim(Tail(str))
    ELSE IF str # << >> /\ str[Len(str)] = " " THEN trim(SubSeq(str, 1, Len(str) - 1))
    ELSE str

\* str.split('/').length
splitLength(str) == Cardinality({i \in 1..Len(str) : str[i] = "/"}) + 1

\* The collation order of the atoms, for String.prototype.localeCompare.
Collation ==
    <<" ", "-", "-2023.txt", ".pdf", ".txt", "/", "doc", "docs", "documents", "my-",
      "report", "Report", "s">>

Rank(atom) == CHOOSE i \in 1..Len(Collation) : Collation[i] = atom

\* The comparison of two strings atom by atom in the collation order.
RECURSIVE compareAtoms(_, _)
compareAtoms(a, b) ==
    IF a = << >> /\ b = << >> THEN 0
    ELSE IF a = << >> THEN 0 - 1
    ELSE IF b = << >> THEN 1
    ELSE IF Head(a) # Head(b) THEN Rank(Head(a)) - Rank(Head(b))
    ELSE compareAtoms(Tail(a), Tail(b))

\* a.localeCompare(b): negative, zero or positive. The letters decide first,
\* whatever their case; between strings of the same letters the lower-case
\* one comes first.
localeCompare(a, b) ==
    IF compareAtoms(toLowerCase(a), toLowerCase(b)) # 0
    THEN compareAtoms(toLowerCase(a), toLowerCase(b))
    ELSE compareAtoms(a, b)

max(a, b) == IF a >= b THEN a ELSE b

\* A score without the tiers: 25 for every name, the bonuses as they are.
calculateMatchScoreUntiered(itemName, searchTerm, path) ==
    25 + max(0, 10 - (IF path # << >> THEN splitLength(path) ELSE 0))
       + (IF includes(itemName, searchTerm) THEN 5 ELSE 0)

calculateMatchScore(itemName, searchTerm, path) ==
    LET normalizedName == toLowerCase(itemName)
        normalizedSearch == toLowerCase(searchTerm)
        base == IF normalizedName = normalizedSearch THEN 100
                ELSE IF IsPrefix(normalizedSearch, normalizedName) THEN 50
                ELSE IF includes(normalizedName, normalizedSearch) THEN 25
                ELSE 0
        pathDepth == IF path # << >> THEN splitLength(path) ELSE 0
    IN  base + max(0, 10 - pathDepth) + (IF includes(itemName, searchTerm) THEN 5 ELSE 0)

\* A Set in insertion order as an array.
RECURSIVE ArrayFrom(_)
ArrayFrom(set) ==
    IF set = {} THEN << >>
    ELSE LET x == CHOOSE y \in set : TRUE IN <<x>> \o ArrayFrom(set \ {x})

\* getAllCachedPaths: the paths of the memory entries of the repository and
\* those read off the localStorage keys that start with its prefix.
getAllCachedPaths(S, repoName) ==
    LET prefix == <<CACHE_PREFIX>> \o repoName \o <<"_">>
        memoryPaths == {S.memoryCache[k].path :
                            k \in {x \in DOMAIN S.memoryCache :
                                      S.memoryCache[x].repoName = repoName}}
        repoKeys == {k \in DOMAIN S.localStorage :
                        IsPrefix(prefix, k) /\ Len(k) > Len(prefix)}
        keyPaths == {IF SubSeq(k, Len(prefix) + 1, Len(k)) = <<"root">> THEN << >>
                     ELSE SubSeq(k, Len(prefix) + 1, Len(k)) : k \in repoKeys}
    IN  ArrayFrom(memoryPaths \cup keyPaths)

FileHit(file, searchPath, fullPath, matchScore) ==
    [name |-> file.name, path |-> file.path, sha |-> file.sha, size |-> file.size,
     id |-> file.id, type |-> file.type, fullPath |-> fullPath,
     searchPath |-> searchPath, matchScore |-> matchScore, matchType |-> "file"]

FolderHit(folder, searchPath, fullPath, matchScore) ==
    [name |-> folder.name, path |-> folder.path, id |-> folder.id, type |-> folder.type,
     fullPath |-> fullPath, searchPath |-> searchPath, matchScore |-> matchScore,
     matchType |-> "folder"]

\* The options of a search.
Options(includeFiles, includeFolders, caseSensitive, maxResults) ==
    [includeFiles |-> includeFiles, includeFolders |-> includeFolders,
     caseSensitive |-> caseSensitive, maxResults |-> maxResults]

\* The test of a name against the term.
Matches(name, searchTerm, options) ==
    LET normalizedSearchTerm == IF options.caseSensitive THEN searchTerm
                                ELSE toLowerCase(searchTerm)
        fileName == IF options.caseSensitive THEN name ELSE toLowerCase(name)
    IN  includes(fileName, normalizedSearchTerm)

\* The hits among the files and the folders of one listing found under path,
\* files first.
ListingHits(listing, path, searchTerm, options) ==
    LET fullPath(name) == IF path # << >> THEN path \o <<"/">> \o name ELSE name
        fileHits == [i \in 1..Len(listing.files) |->
                        FileHit(listing.files[i], path, fullPath(listing.files[i].name),
                                calculateMatchScore(listing.files[i].name, searchTerm, path))]
        folderHits == [i \in 1..Len(listing.folders) |->
                        FolderHit(listing.folders[i], path,
                                  fullPath(listing.folders[i].name),
                                  calculateMatchScore(listing.folders[i].name, searchTerm,
                                                      path))]
    IN  (IF options.includeFiles
         THEN SelectSeq(fileHits, LAMBDA h : Matches(h.name, searchTerm, options))
         ELSE << >>)
        \o (IF options.includeFolders
            THEN SelectSeq(folderHits, LAMBDA h : Matches(h.name, searchTerm, options))
            ELSE << >>)

\* A comparator that looks at the score only.
compareHitsScoreOnly(a, b) == b.matchScore - a.matchScore

\* The comparator handed to results.sort.
compareHits(a, b) ==
    IF b.matchScore # a.matchScore THEN b.matchScore - a.matchScore
    ELSE IF splitLength(a.fullPath) # splitLength(b.fullPath)
    THEN splitLength(a.fullPath) - splitLength(b.fullPath)
    ELSE localeCompare(a.fullPath, b.fullPath)

\* Array.prototype.sort with compareHits: stable.
RECURSIVE insertHit(_, _)
insertHit(sorted, h) ==
    IF sorted = << >> THEN <<h>>
    ELSE IF compareHits(sorted[Len(sorted)], h) <= 0 THEN Append(sorted, h)
    ELSE Append(insertHit(SubSeq(sorted, 1, Len(sorted) - 1), h), sorted[Len(sorted)])

RECURSIVE sortHits(_)
sortHits(results) ==
    IF results = << >> THEN << >>
    ELSE insertHit(sortHits(SubSeq(results, 1, Len(results) - 1)), results[Len(results)])

\* Array.prototype.slice(0, maxResults)
slice(results, maxResults) ==
    SubSeq(results, 1, IF Len(results) < maxResults THEN Len(results) ELSE maxResults)

\* A value under a name: const name = value; ...
With(value, Rest(_)) == Rest(value)

\* The loop of searchCachedData over the cached paths from the i-th on: the
\* store it leaves and the hits it has pushed.
RECURSIVE searchCachedPaths(_, _, _, _, _, _, _)
searchCachedPaths(S, t, repoName, searchTerm, options, cachedPaths, i) ==
    IF i > Len(cachedPaths) THEN [st |-> S, results |-> << >>]
    ELSE With(getCachedData(S, t, repoName, cachedPaths[i]), LAMBDA cachedData :
         With(searchCachedPaths(cachedData.st, t, repoName, searchTerm, options,
                                cachedPaths, i + 1), LAMBDA rest :
            IF cachedData.ret = Null THEN rest
            ELSE [st |-> rest.st,
                  results |-> ListingHits(cachedData.ret, cachedPaths[i], searchTerm,
                                          options) \o rest.results]))

\* searchCachedData: all the hits in the cached listings, ranked and cut.
searchCachedData(S, t, repoName, searchTerm, options) ==
    With(searchCachedPaths(S, t, repoName, searchTerm, options,
                           getAllCachedPaths(S, repoName), 1), LAMBDA found :
        Returns(found.st, slice(sortHits(found.results), options.maxResults)))

\* A request of the enhanced search, with the number of hits collected when
\* it was made.
Request(endpoint, path, hits) == [path |-> path, endpoint |-> endpoint, hits |-> hits]

\* fetchAndCacheFolderData against the answers net: the store it leaves, the
\* listing or null, and its requests. net.contents gives, for a path, "ok",
\* or "fail" for a response that is not OK, or "reject". The request of
\* getLatestCommitSha for the contents of the root is written "probe".
fetchAndCacheFolderData(S, t, net, repoName, folderPath, hits) ==
    IF net.contents[folderPath] # "ok"
    THEN [st |-> S, ret |-> Null, calls |-> <<Request("contents", folderPath, hits)>>]
    ELSE With(getLatestCommitShaOn(net.oracle, t), LAMBDA commitSha :
            [st |-> IF commitSha.ret # Null
                    THEN setCachedData(S, t, repoName, folderPath, commitSha.ret,
                                       net.listing[folderPath].files,
                                       net.listing[folderPath].folders).st
                    ELSE S,
             ret |-> net.listing[folderPath],
             calls |-> <<Request("contents", folderPath, hits)>>
                        \o [i \in 1..Len(commitSha.calls) |->
                               Request(IF commitSha.calls[i] = "contents" THEN "probe"
                                       ELSE commitSha.calls[i], << >>, hits)]])

\* The folder names the term suggests, in the order the source adds them.
SuggestedFolders(searchTermLower) ==
    LET has(word) == includes(searchTermLower, <<word>>)
    IN  (IF has("external") \/ has("comment") THEN <<<<"external", "_", "comments">>>> ELSE << >>)
        \o (IF has("doc") \/ has("pdf") THEN <<<<"documents">>>> ELSE << >>)
        \o (IF has("file") THEN <<<<"files">>>> ELSE << >>)
        \o (IF has("image") \/ has("pic") \/ has("screenshot")
            THEN <<<<"images">>, <<"assets">>>> ELSE << >>)
        \o (IF has("data") THEN <<<<"data">>>> ELSE << >>)
        \o (IF has("content") THEN <<<<"content">>>> ELSE << >>)
        \o (IF has("src") \/ has("code") THEN <<<<"src">>>> ELSE << >>)
        \o (IF has("public") THEN <<<<"public">>>> ELSE << >>)
        \o (IF has("private") THEN <<<<"private">>>> ELSE << >>)
        \o (IF has("shared") THEN <<<<"shared">>>> ELSE << >>)

\* [...new Set(array)]: the first occurrence of each element, in order.
RECURSIVE unique(_)
unique(array) ==
    IF array = << >> THEN << >>
    ELSE LET front == unique(SubSeq(array, 1, Len(array) - 1))
             last == array[Len(array)]
         IN  IF \E i \in 1..Len(front) : front[i] = last THEN front ELSE Append(front, last)

\* The hits in a listing that the enhanced search fetched for folderName. In
\* the loop over the folders of the listing the source declares a second
\* folderName, the (case-folded) name of the folder at hand, and builds
\* searchPath, fullPath and the score from it.
FetchedHits(listing, folderName, searchTerm, options) ==
    LET fileHits == [i \in 1..Len(listing.files) |->
                        FileHit(listing.files[i], folderName,
                                folderName \o <<"/">> \o listing.files[i].name,
                                calculateMatchScore(listing.files[i].name, searchTerm,
                                                    folderName))]
        own(name) == IF options.caseSensitive THEN name ELSE toLowerCase(name)
        folderHits == [i \in 1..Len(listing.folders) |->
                        FolderHit(listing.folders[i], own(listing.folders[i].name),
                                  own(listing.folders[i].name) \o <<"/">>
                                        \o listing.folders[i].name,
                                  calculateMatchScore(listing.folders[i].name, searchTerm,
                                                      own(listing.folders[i].name)))]
    IN  (IF options.includeFiles
         THEN SelectSeq(fileHits, LAMBDA h : Matches(h.name, searchTerm, options))
         ELSE << >>)
        \o (IF options.includeFolders
            THEN SelectSeq(folderHits, LAMBDA h : Matches(h.name, searchTerm, options))
            ELSE << >>)

\* The loop of the enhanced search over foldersToCheck from the i-th on.
RECURSIVE fetchFolders(_, _, _, _, _, _, _, _, _, _)
fetchFolders(S, t, net, repoName, searchTerm, options, foldersToCheck, i, results, calls) ==
    IF i > Len(foldersToCheck) THEN [st |-> S, calls |-> calls, results |-> results]
    ELSE With(fetchAndCacheFolderData(S, t, net, repoName, foldersToCheck[i],
                                      Len(results)), LAMBDA folderData :
         With(IF folderData.ret = Null THEN results
              ELSE results \o FetchedHits(folderData.ret, foldersToCheck[i],
                                          searchTerm, options), LAMBDA more :
            IF folderData.ret # Null /\ Len(more) >= options.maxResults
            THEN [st |-> folderData.st, calls |-> calls \o folderData.calls,
                  results |-> more]
            ELSE fetchFolders(folderData.st, t, net, repoName, searchTerm, options,
                              foldersToCheck, i + 1, more, calls \o folderData.calls)))

\* The segments of a path before the last one: pathParts.slice(0, -1).join('/').
RECURSIVE parentPath(_)
parentPath(path) ==
    IF path = << >> THEN << >>
    ELSE IF path[Len(path)] = "/" THEN SubSeq(path, 1, Len(path) - 1)
    ELSE parentPath(SubSeq(path, 1, Len(path) - 1))

\* The hit for an item of the recursive tree listing, if it is one.
TreeHits(item, searchTerm, options) ==
    LET score == calculateMatchScore(item.name, searchTerm, parentPath(item.path))
    IN  IF options.includeFiles /\ item.type = "file"
            /\ Matches(item.name, searchTerm, options)
        THEN <<FileHit(item, parentPath(item.path), item.path, score)>>
        ELSE IF options.includeFolders /\ item.type = "dir"
                /\ Matches(item.name, searchTerm, options)
        THEN <<FolderHit(item, parentPath(item.path), item.path, score)>>
        ELSE << >>

\* A scan of the tree listing that goes through every item.
RECURSIVE scanTreeWhole(_, _, _, _, _)
scanTreeWhole(allContents, i, searchTerm, options, results) ==
    IF i > Len(allContents) THEN results
    ELSE scanTreeWhole(allContents, i + 1, searchTerm, options,
                       results \o TreeHits(allContents[i], searchTerm, options))

\* The loop of the enhanced search over the items of the tree listing: it
\* stops at the item that brings the hits to maxResults.
RECURSIVE scanTree(_, _, _, _, _)
scanTree(allContents, i, searchTerm, options, results) ==
    IF i > Len(allContents) THEN results
    ELSE With(results \o TreeHits(allContents[i], searchTerm, options), LAMBDA more :
            IF Len(more) >= options.maxResults THEN more
            ELSE scanTree(allContents, i + 1, searchTerm, options, more))

\* A condition that sends the enhanced search to the remote whatever it has.
wantsMoreAlways(searchTerm, results, maxResults) == TRUE

\* The condition under which the enhanced search goes beyond the cache.
wantsMore(searchTerm, results, maxResults) ==
    trim(searchTerm) # << >> /\ Len(results) < maxResults

\* searchCachedDataEnhanced against the answers net: the store it leaves, the
\* hits it returns and its requests.
searchCachedDataEnhanced(S, t, net, repoName, searchTerm, options) ==
    With(searchCachedData(S, t, repoName, searchTerm, options), LAMBDA cachedResults :
    IF ~wantsMore(searchTerm, cachedResults.ret, options.maxResults)
    THEN [st |-> cachedResults.st,
          ret |-> slice(sortHits(cachedResults.ret), options.maxResults),
          calls |-> << >>]
    ELSE
    With(getAllCachedPaths(cachedResults.st, repoName), LAMBDA cachedPaths :
    With(getCachedData(cachedResults.st, t, repoName, RootPath), LAMBDA rootCached :
    With(IF rootCached.ret # Null
         THEN [st |-> rootCached.st, ret |-> rootCached.ret, calls |-> << >>]
         ELSE fetchAndCacheFolderData(rootCached.st, t, net, repoName, RootPath,
                                      Len(cachedResults.ret)), LAMBDA rootData :
    With(SelectSeq(unique((IF rootData.ret # Null
                           THEN [i \in 1..Len(rootData.ret.folders) |->
                                    rootData.ret.folders[i].name]
                           ELSE << >>)
                          \o SuggestedFolders(toLowerCase(searchTerm))),
                   LAMBDA folder : \A i \in 1..Len(cachedPaths) : cachedPaths[i] # folder),
         LAMBDA foldersToCheck :
    With(fetchFolders(rootData.st, t, net, repoName, searchTerm, options, foldersToCheck,
                      1, cachedResults.ret, rootData.calls), LAMBDA fetched :
    IF Len(fetched.results) # 0
    THEN [st |-> fetched.st,
          ret |-> slice(sortHits(fetched.results), options.maxResults),
          calls |-> fetched.calls]
    ELSE [st |-> fetched.st,
          ret |-> slice(sortHits(IF net.tree = "ok"
                                 THEN scanTree(net.allContents, 1, searchTerm, options,
                                               fetched.results)
                                 ELSE fetched.results), options.maxResults),
          calls |-> fetched.calls \o <<Request("tree", << >>, Len(fetched.results))>>]))))))

----------------------------------------------------------------------------
(* The functions that touch no module state, on enumerated inputs          *)

Answers == {"id", "none", "fail", "reject"}

Nets ==
    [head : {1},
     branch : Answers,
     history : Answers,
     repo : {RepoInfo("fail", FALSE, FALSE), RepoInfo("reject", FALSE, FALSE)}
                \cup {RepoInfo("ok", d, e) : d \in BOOLEAN, e \in BOOLEAN},
     defaultBranch : Answers,
     defaultHistory : Answers,
     contents : {"ok", "fail", "reject"}]

CallGetLatestCommitSha ==
    /\ call = Null
    /\ \E net \in Nets :
            call' = [op |-> "getLatestCommitSha", input |-> net, at |-> now,
                     result |-> getLatestCommitShaOn(net, now)]
    /\ UNCHANGED <<storeVars, cleared, remote, currentWorkspace, currentFolder, files, folders, activeRequests,
                   lastRequestedPaths, loads, aborted, nextLoad, lastLoad, accountVars>>

MaxChanges == 2

Tokens == {Null, RealToken(1), RealToken(2), EmptyRepoToken(0), ContentsBasedToken(TickStep)}

ChangedNames ==
    {<<"x.md">>, <<"docs">>, <<"docs", "/", "a.txt">>, <<"docs", "/", "b.txt">>,
     <<"docs", "/", "sub", "/", "c.txt">>}

Changes ==
    {Change(filename, status, sha, 1, 2) :
        filename \in ChangedNames, status \in {"added", "modified", "removed"},
        sha \in {"s8", "s9"}}
        \cup {[status |-> "refresh-needed"]}

ChangeLists == UNION {[1..k -> Changes] : k \in 0..MaxChanges}

CompareResponses ==
    {[files |-> << >>, status |-> "fail"], [files |-> << >>, status |-> "reject"],
     [files |-> << >>, status |-> "ok"],
     [files |-> <<Change(<<"docs", "/", "b.txt">>, "removed", "s5", 0, 40)>>, status |-> "ok"]}

\* What getCachedData returns for a listing stored under commit k.
CachedEntry(k, path) ==
    [files |-> TreeListing(k, path).files, folders |-> TreeListing(k, path).folders,
     path |-> path, repoName |-> RepoA, version |-> CACHE_VERSION, timestamp |-> 0,
     commitSha |-> RealToken(k), lastFetched |-> 0]

CachedEntries == {CachedEntry(k, path) : k \in 1..2, path \in Paths}

CallGetCommitChanges ==
    /\ call = Null
    /\ \E compare \in CompareResponses, fromCommit \in Tokens, toCommit \in Tokens :
            call' = [op |-> "getCommitChanges",
                     input |-> [compare |-> compare, fromCommit |-> fromCommit,
                                toCommit |-> toCommit],
                     at |-> now,
                     result |-> getCommitChanges(compare, fromCommit, toCommit)]
    /\ UNCHANGED <<storeVars, cleared, remote, currentWorkspace, currentFolder, files, folders, activeRequests,
                   lastRequestedPaths, loads, aborted, nextLoad, lastLoad, accountVars>>

CallApplyChangesToCache ==
    /\ call = Null
    /\ \E changeList \in ChangeLists, cachedData \in CachedEntries :
            call' = [op |-> "applyChangesToCache",
                     input |-> [cachedData |-> cachedData,
                                changes |-> [files |-> changeList, commits |-> << >>]],
                     at |-> now,
                     result |-> applyChangesToCache(cachedData.repoName, cachedData.path,
                                                    [files |-> changeList, commits |-> << >>],
                                                    cachedData)]
    /\ UNCHANGED <<storeVars, cleared, remote, currentWorkspace, currentFolder, files, folders, activeRequests,
                   lastRequestedPaths, loads, aborted, nextLoad, lastLoad, accountVars>>

PureInit == StoreInitial({<< >>}) /\ ViewInitial /\ remote = Remote("commits", 1)

PureNext ==
    \/ CallGetLatestCommitSha
    \/ CallGetCommitChanges
    \/ CallApplyChangesToCache
    \/ Tick

PureSpec == PureInit /\ [][PureNext]_vars

Resolution == call # Null /\ call.op = "getLatestCommitSha"

\* No step for the requested branch, nor for the reported default branch when
\* those steps are taken, yielded a commit identifier.
NoIdentifier(net) ==
    /\ net.branch # "id"
    /\ net.history # "id"
    /\ (net.repo.status = "ok" /\ net.repo.default_branch) =>
            (net.defaultBranch # "id" /\ net.defaultHistory # "id")

ReportsEmpty(net) == net.repo.status = "ok" /\ net.repo.empty

C14_NullOnlyIfAllFail ==
    (Resolution /\ call.result.ret = Null) =>
        /\ NoIdentifier(call.input)
        /\ ~ReportsEmpty(call.input)
        /\ call.input.contents # "ok"

\* C15: a placeholder is returned only when no step yielded an identifier; it
\* is of the empty-repo flavor exactly when repository-info answered and
\* reports empty, and of the contents-based flavor only when that is not so
\* and the probe of the root listing answered OK.
C15_PlaceholderFlavors ==
    (Resolution /\ call.result.ret # Null /\ IsPlaceholder(call.result.ret)) =>
        /\ NoIdentifier(call.input)
        /\ call.result.ret.flavor = "empty-repo-" <=> ReportsEmpty(call.input)
        /\ call.result.ret.flavor = "contents-based-" =>
                (~ReportsEmpty(call.input) /\ call.input.contents = "ok")
        /\ call.result.ret.n = call.at

C15_Witness ==
    /\ Resolution
    /\ call.result.ret = EmptyRepoToken(call.at)
    /\ call.input.contents = "ok"
    /\ call.at > 0

Pseudo(token) == token # Null /\ startsWithPseudo(token)

\* C18: getCommitChanges called with a placeholder token as fromCommit or as
\* toCommit returns the refresh-needed marker and makes no request.
C18_PlaceholderShortCircuit ==
    (/\ call # Null
     /\ call.op = "getCommitChanges"
     /\ Pseudo(call.input.fromCommit) \/ Pseudo(call.input.toCommit)) =>
        /\ call.result.ret = RefreshNeeded
        /\ call.result.calls = << >>

C18_Witness ==
    /\ call # Null
    /\ call.op = "getCommitChanges"
    /\ call.input.fromCommit = RealToken(1)
    /\ call.input.toCommit = ContentsBasedToken(TickStep)
    /\ call.input.compare.status = "ok"
    /\ call.input.compare.files # << >>
    /\ call.result.ret = RefreshNeeded

IsListing(v) == {"files", "folders"} \subseteq DOMAIN v

\* C19: when either token is a placeholder or the compare request fails, what
\* applyChangesToCache makes of the result of getCommitChanges is a signal
\* that a refresh is needed, not a listing: neither the cached listing as it
\* was nor a patched one.
C19_NeverSilentlyStale ==
    (/\ call # Null
     /\ call.op = "getCommitChanges"
     /\ \/ Pseudo(call.input.fromCommit)
        \/ Pseudo(call.input.toCommit)
        \/ call.input.compare.status # "ok") =>
        \A cachedData \in CachedEntries :
            ~IsListing(applyChangesToCache(cachedData.repoName, cachedData.path,
                                           call.result.ret, cachedData))

Names(items) == {items[i].name : i \in 1..Len(items)}

Without(items, fileName) == SelectSeq(items, LAMBDA item : item.name # fileName)

\* C20: for a cached listing of path P and the one change {filename: P/n,
\* status: removed}, applyChangesToCache returns the listing with n taken out
\* of the file list and out of the folder list, every other entry as it was
\* and in its place.
C20_RemovalPatch ==
    (/\ call # Null
     /\ call.op = "applyChangesToCache"
     /\ Len(call.input.changes.files) = 1
     /\ "filename" \in DOMAIN call.input.changes.files[1]
     /\ call.input.changes.files[1].status = "removed"
     /\ LET P == call.input.cachedData.path
            filename == call.input.changes.files[1].filename
        IN  /\ Len(filename) = Len(P) + (IF P = << >> THEN 1 ELSE 2)
            /\ IsPrefix(IF P = << >> THEN P ELSE P \o <<"/">>, filename)) =>
        LET n == call.input.changes.files[1].filename[Len(call.input.changes.files[1].filename)]
        IN  /\ call.result.files = Without(call.input.cachedData.files, n)
            /\ call.result.folders = Without(call.input.cachedData.folders, n)
            /\ DOMAIN call.result = {"files", "folders"}

C20_Witness ==
    /\ call # Null
    /\ call.op = "applyChangesToCache"
    /\ call.input.cachedData = CachedEntry(1, DocsPath)
    /\ call.input.changes.files = <<Change(<<"docs", "/", "b.txt">>, "removed", "s9", 1, 2)>>
    /\ Names(call.result.files) = {"a.txt"}
    /\ Len(call.result.files) = 1

Patch == call # Null /\ call.op = "applyChangesToCache"

\* filename is exactly one segment below the path P.
DirectChild(P, filename) ==
    /\ Len(filename) = Len(P) + (IF P = << >> THEN 1 ELSE 2)
    /\ IsPrefix(IF P = << >> THEN P ELSE P \o <<"/">>, filename)
    /\ filename[Len(filename)] # "/"

WellFormed(changeList) == \A i \in 1..Len(changeList) : "filename" \in DOMAIN changeList[i]

\* The changes of changeList that are for direct children of P, in order.
Direct(P, changeList) ==
    SelectSeq(changeList, LAMBDA change : DirectChild(P, change.filename))

\* C21: applyChangesToCache at path P is changed only by the changes whose
\* filename is a direct child of P: changes outside P or in a deeper
\* subdirectory leave files and folders as cached, and among other changes
\* they make no difference to the result.
C21_OnlyDirectChildren ==
    (Patch /\ WellFormed(call.input.changes.files)) =>
        LET cachedData == call.input.cachedData
            P == cachedData.path
            changeList == call.input.changes.files
        IN  /\ Direct(P, changeList) = << >> =>
                    /\ call.result.files = cachedData.files
                    /\ call.result.folders = cachedData.folders
            /\ call.result =
                    applyChangesToCache(cachedData.repoName, P,
                                        [files |-> Direct(P, changeList), commits |-> << >>],
                                        cachedData)

C21_Witness ==
    /\ Patch
    /\ call.input.cachedData = CachedEntry(1, DocsPath)
    /\ call.input.changes.files =
            <<Change(<<"docs", "/", "sub", "/", "c.txt">>, "added", "s9", 1, 2),
              Change(<<"x.md">>, "removed", "s8", 1, 2)>>
    /\ call.result.files = TreeListing(1, DocsPath).files

Unique(items) ==
    \A i, j \in 1..Len(items) : items[i].name = items[j].name => i = j

\* C22: when file names and folder names are unique in the cached listing,
\* file names are unique after applyChangesToCache with any list of added,
\* modified and removed changes, and the file of the last added or modified
\* change for a name, when no removal of that name follows it, is there
\* exactly once, with the sha of that change.
C22_NamesStayUnique ==
    (/\ Patch
     /\ WellFormed(call.input.changes.files)
     /\ Unique(call.input.cachedData.files)
     /\ Unique(call.input.cachedData.folders)) =>
        LET direct == Direct(call.input.cachedData.path, call.input.changes.files)
        IN  /\ Unique(call.result.files)
            /\ \A i \in 1..Len(direct) :
                    (/\ direct[i].status \in {"added", "modified"}
                     /\ \A j \in (i + 1)..Len(direct) :
                            direct[j].filename # direct[i].filename) =>
                        \E k \in 1..Len(call.result.files) :
                            /\ call.result.files[k].name = pop(direct[i].filename)
                            /\ call.result.files[k].sha = direct[i].sha
                            /\ call.result.files[k].path = direct[i].filename

C22_Witness ==
    /\ Patch
    /\ call.input.cachedData = CachedEntry(1, DocsPath)
    /\ call.input.changes.files =
            <<Change(<<"docs", "/", "a.txt">>, "modified", "s8", 1, 2),
              Change(<<"docs", "/", "a.txt">>, "modified", "s9", 1, 2)>>
    /\ Len(call.result.files) = 2
    /\ call.result.files[2].sha = "s9"

----------------------------------------------------------------------------
(* Searches over a repository with reports in it                          *)

ReportsPath == <<"report", "s">>
DocumentsPath == <<"documents">>
DeepPath == <<"docs", "/", "s", "/", "s", "/", "s", "/", "s", "/", "s">>

\* The listings of the repository that is searched.
SearchListing(path) ==
    IF path = RootPath
    THEN [files |-> <<FileItem(<<"Report", ".pdf">>, <<"Report", ".pdf">>, "r1", 10),
                      FileItem(<<"my-", "report", "-2023.txt">>,
                               <<"my-", "report", "-2023.txt">>, "r2", 20)>>,
          folders |-> <<FolderItem(ReportsPath, ReportsPath, "r3"),
                        FolderItem(DocsPath, DocsPath, "r4")>>]
    ELSE IF path = ReportsPath
    THEN [files |-> <<FileItem(<<"report">>, ReportsPath \o <<"/", "report">>, "r5", 30),
                      FileItem(<<"Report">>, ReportsPath \o <<"/", "Report">>, "r10", 70)>>,
          folders |-> << >>]
    ELSE IF path = DocsPath
    THEN [files |-> <<FileItem(<<"Report", "-", "report">>,
                               DocsPath \o <<"/", "Report", "-", "report">>, "r6", 40)>>,
          folders |-> <<FolderItem(<<"Report">>, DocsPath \o <<"/", "Report">>, "r7")>>]
    ELSE IF path = DeepPath
    THEN [files |-> <<FileItem(<<"report">>, DeepPath \o <<"/", "report">>, "r9", 60)>>,
          folders |-> << >>]
    ELSE [files |-> <<FileItem(<<"doc", ".txt">>, path \o <<"/", "doc", ".txt">>, "r8", 50)>>,
          folders |-> << >>]

SearchPaths == {RootPath, ReportsPath, DocsPath, DocumentsPath}

\* Every item of the repository, as the scan of the tree listing reads them.
AllContents ==
    <<SearchListing(RootPath).files[2], SearchListing(DocsPath).files[1],
      SearchListing(RootPath).folders[1], SearchListing(ReportsPath).files[1],
      SearchListing(RootPath).files[1], SearchListing(DocsPath).folders[1],
      SearchListing(ReportsPath).files[2]>>

SearchEntry(path) ==
    [files |-> SearchListing(path).files, folders |-> SearchListing(path).folders,
     path |-> path, repoName |-> RepoA, version |-> CACHE_VERSION, timestamp |-> 0,
     commitSha |-> RealToken(1), lastFetched |-> 0]

\* The memory tier with the listings of the paths in cachedSet.
SearchMemory(cachedSet) ==
    [k \in {getCacheKey(RepoA, path) : path \in cachedSet} |->
        SearchEntry(CHOOSE path \in cachedSet : getCacheKey(RepoA, path) = k)]

AllFail ==
    [head |-> 1, branch |-> "fail", history |-> "fail", repo |-> RepoInfo("fail", FALSE, FALSE),
     defaultBranch |-> "fail", defaultHistory |-> "fail", contents |-> "fail"]

\* What the remote answers to one enhanced search.
SearchNets ==
    {[listing |-> [path \in SearchPaths |-> SearchListing(path)],
      contents |-> [path \in SearchPaths |->
                        IF path = DocumentsPath THEN documents ELSE reach],
      oracle |-> oracle, allContents |-> AllContents, tree |-> tree] :
        reach \in {"ok", "fail", "reject"}, documents \in {"ok", "fail"},
        oracle \in {AllFail, [AllFail EXCEPT !.branch = "id"]},
        tree \in {"ok", "fail"}}

MaxResults == 2

SearchTerms == {<<"report">>, <<"Report">>, <<"doc">>, << >>, <<" ">>}

SearchOptions ==
    {Options(includeFiles, includeFolders, caseSensitive, maxResults) :
        includeFiles \in BOOLEAN, includeFolders \in BOOLEAN, caseSensitive \in BOOLEAN,
        maxResults \in (1..MaxResults) \cup {200}}

CallSearchCachedData ==
    /\ call = Null
    /\ \E searchTerm \in SearchTerms, options \in SearchOptions :
          LET r == searchCachedData(Store, now, RepoA, searchTerm, options)
          IN  /\ call' = [op |-> "searchCachedData",
                          input |-> [searchTerm |-> searchTerm, options |-> options,
                                     store |-> Store],
                          at |-> now,
                          result |-> [ret |-> r.ret, calls |-> << >>]]
              /\ Apply(r.st)
    /\ UNCHANGED <<now, cleared, remote, currentWorkspace, currentFolder, files, folders, activeRequests,
                   lastRequestedPaths, loads, aborted, nextLoad, lastLoad, accountVars>>

CallSearchCachedDataEnhanced ==
    /\ call = Null
    /\ \E net \in SearchNets, searchTerm \in SearchTerms, options \in SearchOptions :
          LET r == searchCachedDataEnhanced(Store, now, net, RepoA, searchTerm, options)
          IN  /\ call' = [op |-> "searchCachedDataEnhanced",
                          input |-> [net |-> net, searchTerm |-> searchTerm,
                                     options |-> options, store |-> Store],
                          at |-> now,
                          result |-> [ret |-> r.ret, calls |-> r.calls]]
              /\ Apply(r.st)
    /\ UNCHANGED <<now, cleared, remote, currentWorkspace, currentFolder, files, folders, activeRequests,
                   lastRequestedPaths, loads, aborted, nextLoad, lastLoad, accountVars>>

SearchInit ==
    /\ now = 0
    /\ \E cachedSet \in SUBSET {RootPath, ReportsPath, DocsPath, DeepPath} :
            memoryCache = SearchMemory(cachedSet)
    /\ commitCache = << >>
    /\ \E durableSet \in {{}, {RootPath}, {DocsPath}} :
            localStorage = [k \in {getCacheKey(RepoA, path) : path \in durableSet} |->
                                JSONstringify(SearchEntry(
                                    CHOOSE path \in durableSet : getCacheKey(RepoA, path) = k))]
    /\ timers = << >>
    /\ cleared = {}
    /\ ViewInitial
    /\ remote = Remote("commits", 1)

SearchNext ==
    \/ CallSearchCachedData
    \/ CallSearchCachedDataEnhanced
    \/ \E quota \in {"none", "first", "second"} : RunTimer(quota)

SearchSpec == SearchInit /\ [][SearchNext]_vars

Search == call # Null /\ call.op \in {"searchCachedData", "searchCachedDataEnhanced"}

\* The score of a name against a term at a path: 100 for equality, else 50
\* for a name that starts with the term, else 25 for one that contains it,
\* on the case-folded name and term unless caseSensitive, then on the raw
\* ones; plus max(0, 10 - pathDepth); plus 5 if the raw name contains the
\* raw term.
Score(name, term, path, caseSensitive) ==
    LET n == IF caseSensitive THEN name ELSE toLowerCase(name)
        q == IF caseSensitive THEN term ELSE toLowerCase(term)
    IN  (IF n = q THEN 100
         ELSE IF IsPrefix(q, n) THEN 50
         ELSE IF includes(n, q) THEN 25
         ELSE 0)
        + max(0, 10 - (IF path # << >> THEN splitLength(path) ELSE 0))
        + (IF includes(name, term) THEN 5 ELSE 0)

Hits == IF Search THEN call.result.ret ELSE << >>

\* C23: every hit of searchCachedData and of searchCachedDataEnhanced carries
\* the score of its name against the term at the path it was found under,
\* with name and term case-folded unless caseSensitive is set.
C23_ScoreFollowsCaseSensitive ==
    \A i \in 1..Len(Hits) :
        Hits[i].matchScore = Score(Hits[i].name, call.input.searchTerm, Hits[i].searchPath,
                                   call.input.options.caseSensitive)

\* The place of the hit with this full path in the result list, 0 if absent.
Place(fullPath) ==
    IF \E i \in 1..Len(Hits) : Hits[i].fullPath = fullPath
    THEN CHOOSE i \in 1..Len(Hits) :
            /\ Hits[i].fullPath = fullPath
            /\ \A j \in 1..(i - 1) : Hits[j].fullPath # fullPath
    ELSE 0

\* A case-insensitive search for "report" whose result has the three items
\* of the root listing.
ReportSearch ==
    /\ Search
    /\ call.input.searchTerm = <<"report">>
    /\ ~call.input.options.caseSensitive
    /\ Place(<<"Report", ".pdf">>) > 0
    /\ Place(ReportsPath) > 0
    /\ Place(<<"my-", "report", "-2023.txt">>) > 0

\* C24: a case-insensitive search for "report" over the root listing with the
\* files Report.pdf and my-report-2023.txt and the folder reports ranks
\* reports above Report.pdf, and Report.pdf above my-report-2023.txt.
C24_ReportsFirst ==
    ReportSearch =>
        /\ Place(ReportsPath) < Place(<<"Report", ".pdf">>)
        /\ Place(<<"Report", ".pdf">>) < Place(<<"my-", "report", "-2023.txt">>)

\* C24 as first stated: Report.pdf above reports above my-report-2023.txt.
C24_ReportPdfFirst ==
    ReportSearch =>
        /\ Place(<<"Report", ".pdf">>) < Place(ReportsPath)
        /\ Place(ReportsPath) < Place(<<"my-", "report", "-2023.txt">>)

C24_Witness ==
    /\ ReportSearch
    /\ call.op = "searchCachedData"
    /\ Hits[Place(ReportsPath)].matchScore = 65
    /\ Hits[Place(<<"Report", ".pdf">>)].matchScore = 60
    /\ Hits[Place(<<"my-", "report", "-2023.txt">>)].matchScore = 40

\* Hit a is not ranked after hit b: a higher score, or the same score and
\* fewer segments in fullPath, or both the same and a fullPath that does not
\* compare after the other.
NotRankedAfter(a, b) ==
    \/ a.matchScore > b.matchScore
    \/ /\ a.matchScore = b.matchScore
       /\ splitLength(a.fullPath) < splitLength(b.fullPath)
    \/ /\ a.matchScore = b.matchScore
       /\ splitLength(a.fullPath) = splitLength(b.fullPath)
       /\ localeCompare(a.fullPath, b.fullPath) <= 0

\* C25: in the result list of searchCachedData and of
\* searchCachedDataEnhanced no hit is ranked after the hit that follows it:
\* descending score, then ascending number of segments of fullPath, then
\* fullPath comparison.
C25_RankedOrder ==
    \A i \in 1..(Len(Hits) - 1) : NotRankedAfter(Hits[i], Hits[i + 1])

\* A result of three hits or more in which one pair is decided by the score,
\* one by the number of segments and one by the comparison of the full paths.
C25_Witness ==
    /\ Search
    /\ Len(Hits) >= 3
    /\ \E i \in 1..(Len(Hits) - 1) : Hits[i].matchScore > Hits[i + 1].matchScore
    /\ \E i \in 1..(Len(Hits) - 1) :
            /\ Hits[i].matchScore = Hits[i + 1].matchScore
            /\ splitLength(Hits[i].fullPath) = splitLength(Hits[i + 1].fullPath)
            /\ localeCompare(Hits[i].fullPath, Hits[i + 1].fullPath) < 0
    /\ \E i \in 1..(Len(Hits) - 1) :
            /\ Hits[i].matchScore = Hits[i + 1].matchScore
            /\ splitLength(Hits[i].fullPath) < splitLength(Hits[i + 1].fullPath)

\* The matching candidates of the listings that the requests from the i-th
\* on brought in: the listing of each folder fetched, the whole tree listing.
RECURSIVE RequestedCandidates(_)
RequestedCandidates(i) ==
    IF i > Len(call.result.calls) THEN << >>
    ELSE LET request == call.result.calls[i]
             net == call.input.net
             here == IF /\ request.endpoint = "contents"
                        /\ request.path # RootPath
                        /\ net.contents[request.path] = "ok"
                     THEN FetchedHits(net.listing[request.path], request.path,
                                      call.input.searchTerm, call.input.options)
                     ELSE IF request.endpoint = "tree" /\ net.tree = "ok"
                     THEN scanTreeWhole(net.allContents, 1, call.input.searchTerm,
                                        call.input.options, << >>)
                     ELSE << >>
         IN  here \o RequestedCandidates(i + 1)

\* Every matching candidate of every listing the search scanned: the cached
\* listings and those it requested.
Candidates ==
    searchCachedPaths(call.input.store, call.at, RepoA, call.input.searchTerm,
                      call.input.options, getAllCachedPaths(call.input.store, RepoA),
                      1).results
        \o RequestedCandidates(1)

\* C26: the list returned by searchCachedData and by searchCachedDataEnhanced
\* is the first maxResults elements of the ranked list of all the matching
\* candidates of every listing the call scanned.
C26_TopOfAllCandidates ==
    Search => Hits = slice(sortHits(Candidates), call.input.options.maxResults)

Enhanced == call # Null /\ call.op = "searchCachedDataEnhanced"

Requests == IF Enhanced THEN call.result.calls ELSE << >>

\* The number of hits of the synchronous pass of the search.
SynchronousHits ==
    Len(searchCachedData(call.input.store, call.at, RepoA, call.input.searchTerm,
                         call.input.options).ret)

\* The paths that were cached when the search began.
CachedAtStart == getAllCachedPaths(call.input.store, RepoA)

\* C27: searchCachedDataEnhanced makes no request when the synchronous pass
\* yields maxResults hits or the term is blank; the listings it requests are
\* those of the root, when the cache has none for it, and of folders that
\* are not cached; and it requests the tree listing only when the result
\* list is empty after the folder requests, which are then all behind it.
C27_CascadeGating ==
    Enhanced =>
        /\ (SynchronousHits >= call.input.options.maxResults
                \/ trim(call.input.searchTerm) = << >>) => Requests = << >>
        /\ \A i \in 1..Len(Requests) :
                Requests[i].endpoint = "contents" =>
                    IF Requests[i].path = RootPath
                    THEN getCachedData(call.input.store, call.at, RepoA, RootPath).ret = Null
                    ELSE \A j \in 1..Len(CachedAtStart) : CachedAtStart[j] # Requests[i].path
        /\ \A i \in 1..Len(Requests) :
                Requests[i].endpoint = "tree" => Requests[i].hits = 0 /\ i = Len(Requests)

\* A search that skipped a cached folder, requested one that was not cached
\* and, with nothing found, went on to the tree listing.
C27_Witness ==
    /\ Enhanced
    /\ \E j \in 1..Len(CachedAtStart) : CachedAtStart[j] = ReportsPath
    /\ \E i \in 1..Len(Requests) :
            Requests[i].endpoint = "contents" /\ Requests[i].path = DocsPath
    /\ Requests[Len(Requests)].endpoint = "tree"

\* A search with a term that found maxResults hits in the cache.
C27_WitnessFull ==
    /\ Enhanced
    /\ trim(call.input.searchTerm) # << >>
    /\ SynchronousHits >= call.input.options.maxResults
    /\ Requests = << >>

\* Load n is in flight and a loadContents for another path has started since
\* and has cancelled it.
Superseded(n) ==
    /\ MapHas(loads, n)
    /\ loads[n].pc # "waiting"
    /\ IF loads[n].pc = "root" THEN RootAbortController(n) \in aborted
       ELSE loads[n].abortController \in aborted

\* Load n settles in this step.
Settles(n) == MapHas(loads, n) /\ ~MapHas(loads', n) /\ lastLoad' # Null /\ lastLoad'.n = n

\* C28: a load that was superseded by a load for another path settles
\* without a write to the displayed files and folders and without a write to
\* the cache.
C28_SupersededDiscarded ==
    [][\A n \in Loads :
          Superseded(n) /\ Settles(n) =>
              /\ files' = files
              /\ folders' = folders
              /\ timers' = timers
              /\ localStorage' = localStorage]_vars

----------------------------------------------------------------------------
(* A switch of workspace while the file browser is on show                 *)

\* The root entry and the commit record an earlier session left for a
\* repository whose head was commit k.
EarlierRoot(repoName, k) ==
    [files |-> TreeListing(k, RootPath).files, folders |-> TreeListing(k, RootPath).folders,
     path |-> RootPath, repoName |-> repoName, version |-> CACHE_VERSION,
     timestamp |-> 0 - TickStep, commitSha |-> RealToken(k), lastFetched |-> 0 - TickStep]

EarlierRoots(repos) ==
    [key \in {getCacheKey(r, RootPath) : r \in repos} \cup {getCommitCacheKey(r) : r \in repos}
        |-> LET r == CHOOSE x \in repos : key \in {getCacheKey(x, RootPath),
                                                   getCommitCacheKey(x)}
                k == IF r = RepoA THEN 1 ELSE 2
            IN  IF key = getCommitCacheKey(r)
                THEN JSONstringify([version |-> CACHE_VERSION, timestamp |-> 0 - TickStep,
                                    commitSha |-> RealToken(k)])
                ELSE JSONstringify(EarlierRoot(r, k))]

\* watch(currentWorkspace) for a workspace with another id, with no folder
\* in the URL: the cached root of the new repository or nothing goes on
\* show, and initializeFromUrl calls loadContents for the root.
switchWorkspace ==
    /\ currentWorkspace.id = 1
    /\ LET newWorkspace == Workspace(2, RepoB)
           cachedRootData == getCachedData(Store, now, newWorkspace.git_repo, RootPath)
       IN  /\ currentWorkspace' = newWorkspace
           /\ Apply(cachedRootData.st)
           /\ files' = IF cachedRootData.ret # Null THEN cachedRootData.ret.files ELSE << >>
           /\ folders' = IF cachedRootData.ret # Null THEN cachedRootData.ret.folders
                         ELSE << >>
           /\ loadContentsBegin(newWorkspace, Null)
    /\ UNCHANGED <<cleared, call, accountVars>>

WorkspaceInit ==
    /\ StoreInitial({<< >>, EarlierRoots({RepoA}), EarlierRoots({RepoA, RepoB})})
    /\ ViewInitial
    /\ remote = Remote("commits", 1)

WorkspaceNext ==
    \/ LoadContents
    \/ switchWorkspace
    \/ \E n \in Loads : OracleReturn(n)
    \/ \E n \in Loads : ListingReturn(n)
    \/ \E n \in Loads : WaitReturn(n)
    \/ \E quota \in {"none", "first", "second"} : RunTimer(quota)

WorkspaceSpec == WorkspaceInit /\ [][WorkspaceNext]_vars

\* C29: a loadContents call is suppressed, to wait for the load in flight,
\* only when a load for the same repository and the same path is in flight.
C29_SuppressedOnlySamePair ==
    [][\A n \in Loads :
          (~MapHas(loads, n) /\ MapHas(loads', n) /\ loads'[n].pc = "waiting") =>
              \E m \in DOMAIN loads :
                  /\ loads[m].pc # "waiting"
                  /\ loads[m].repoName = loads'[n].repoName
                  /\ loads[m].path = loads'[n].path]_vars

----------------------------------------------------------------------------
(* Loads against a remote that fails                                       *)

\* The remote stops answering, or answers its contents requests with 500.
RemoteFail ==
    /\ remote.kind = "commits"
    /\ \E kind \in {"unreachable", "overloaded"} : remote' = Remote(kind, remote.head)
    /\ UNCHANGED <<storeVars, cleared, currentFolder, files, folders, activeRequests,
                   lastRequestedPaths, loads, aborted, nextLoad, lastLoad, call,
                   currentWorkspace, accountVars>>

FetchInit ==
    /\ StoreInitial({<< >>, EarlierStore})
    /\ ViewInitial
    /\ remote \in {Remote("commits", 1), Remote("commits", 3), Remote("missing", 0)}

FetchNext ==
    \/ \E path \in Paths : navigateToFolder(Folder(path))
    \/ navigateToRoot
    \/ \E n \in Loads : OracleReturn(n)
    \/ \E n \in Loads : ListingReturn(n)
    \/ \E n \in Loads : RootListingReturn(n)
    \/ \E n \in Loads : WaitReturn(n)
    \/ \E quota \in {"none", "first", "second"} : RunTimer(quota)
    \/ RemoteFail

FetchSpec == FetchInit /\ [][FetchNext]_vars

\* The contents request of load n, which was not cancelled, is answered in
\* this step.
Answered(n) ==
    /\ MapHas(loads, n)
    /\ loads[n].pc \in {"listing", "direct"}
    /\ loads[n].abortController \notin aborted
    /\ Settles(n) \/ (MapHas(loads', n) /\ loads'[n].pc = "root")

C30_WitnessNotFound ==
    /\ lastLoad # Null
    /\ lastLoad.notice = "warning"
    /\ lastLoad.path # RootPath
    /\ currentFolder = Null

----------------------------------------------------------------------------
(* Refresh of the cache from the toolbar                                   *)

\* refreshCache, with a note of the call: the number of the loadContents it
\* makes, the path on show and the head of the repository at the time.
Refresh ==
    /\ refreshCacheBegin
    /\ call' = [n |-> nextLoad, path |-> PathOf(currentFolder), head |-> remote.head]

RefreshInit ==
    /\ StoreInitial({<< >>, EarlierRoots({RepoA})})
    /\ ViewInitial
    /\ remote = Remote("commits", 1)

RefreshNext ==
    \/ LoadContents
    \/ Refresh
    \/ \E n \in Loads : OracleReturn(n)
    \/ \E n \in Loads : ListingReturn(n)
    \/ \E n \in Loads : WaitReturn(n)
    \/ \E quota \in {"none", "first", "second"} : RunTimer(quota)
    \/ RemotePush

RefreshSpec == RefreshInit /\ [][RefreshNext]_vars

\* The loadContents of the last refresh returns in this step.
RefreshSettles == call # Null /\ MapHas(loads, call.n) /\ ~MapHas(loads', call.n)

\* The entry of the path is a listing of the repository under a token, both
\* of a commit that was the head at some time since the refresh was called.
RefreshedEntry(entry, path, from, to) ==
    /\ entry # Null
    /\ \E k \in from..to : entry.commitSha = RealToken(k)
    /\ \E k \in from..to :
          /\ entry.files = TreeListing(k, path).files
          /\ entry.folders = TreeListing(k, path).folders

\* C31: when the loadContents of a refresh has returned, the cache entry of
\* the path on show holds a listing fetched since the cache was cleared,
\* under the token the oracle resolved since then, also when another load of
\* the same path was in flight when refresh was called.
C31_RefreshReloads ==
    [][RefreshSettles =>
          RefreshedEntry(getCachedData(Store', now', currentWorkspace.git_repo, call.path).ret,
                         call.path, call.head, remote'.head)]_vars

\* The same for a refresh that found no load in flight.
C31_RefreshAloneReloads ==
    [][RefreshSettles /\ loads[call.n].pc # "waiting" =>
          RefreshedEntry(getCachedData(Store', now', currentWorkspace.git_repo, call.path).ret,
                         call.path, call.head, remote'.head)]_vars

----------------------------------------------------------------------------
(* Loads while the remote cannot be reached                                *)

\* A loadContents that ran to its end while every request to the remote was
\* rejected, for a path of which the cache holds a valid entry.
OfflineLoad(l) ==
    /\ l # Null
    /\ l.remote.kind = "unreachable"
    /\ l.outcome # "aborted"
    /\ l.entryAfter # Null

\* C32: with the remote out of reach and a valid entry for the path in the
\* cache, a load of the path puts the files and folders of the entry on show.
C32_OfflineBrowsing ==
    OfflineLoad(lastLoad) =>
        /\ lastLoad.files = lastLoad.entryAfter.files
        /\ lastLoad.folders = lastLoad.entryAfter.folders
        /\ files = lastLoad.entryAfter.files

----------------------------------------------------------------------------
(* Termination of loadContents                                             *)

\* Every request to the remote is answered or rejected in the end, and the
\* animation frame in which a waiting loadContents looks at the slot comes
\* round for as long as the page is open.
ReturnsFair ==
    /\ WF_vars(\E n \in Loads : OracleReturn(n))
    /\ WF_vars(\E n \in Loads : ListingReturn(n))
    /\ WF_vars(\E n \in Loads : RootListingReturn(n))
    /\ SF_vars(\E n \in Loads : WaitReturn(n))

LiveSpec == FetchInit /\ [][FetchNext]_vars /\ ReturnsFair

\* A loadContents call is between its first await and its return.
Executing(n) == MapHas(loads, n) /\ loads[n].pc # "waiting"

\* C33: every loadContents call returns in the end, a call that waits for a
\* load of the same path included.
C33_LoadContentsReturns == \A n \in Loads : MapHas(loads, n) ~> ~MapHas(loads, n)

\* The reason the claim gives: the slot activeRequests.loadContents is null
\* whenever no loadContents call is executing.
C33_SlotFreeWhenIdle ==
    (\A n \in Loads : ~Executing(n)) => activeRequests.loadContents = Null

\* The calls that do not wait do return.
C33_ExecutingReturns == \A n \in Loads : Executing(n) ~> ~MapHas(loads, n)

----------------------------------------------------------------------------
(* What loadContents writes to the cache                                   *)

\* The listing the remote repository r returns for path: the files and
\* folders of an OK response, none for a response that is not OK.
Returned(r, path) ==
    LET response == ContentsResponse(r, path)
    IN  IF response.status = 200
        THEN [files |-> response.body.files, folders |-> response.body.folders]
        ELSE [files |-> << >>, folders |-> << >>]

\* Load n returns in this step from step 5 of loadContents, where it wrote
\* the entry of its repository and path.
Stores(n) == Settles(n) /\ lastLoad'.outcome = "stored"

\* C34: the entry loadContents writes under a repository and a path holds
\* the listing the remote returns for that path of that repository, not the
\* listing of the root after a 404 redirect and not the listing of the
\* repository of another workspace.
C34_EntryIsListingOfItsKey ==
    [][\A n \in Loads :
          Stores(n) =>
              LET entry == lastLoad'.entryAfter
                  listing == Returned(RemoteOf(loads[n].repoName), loads[n].path)
              IN  /\ entry # Null
                  /\ entry.files = listing.files
                  /\ entry.folders = listing.folders]_vars

----------------------------------------------------------------------------
(* A patch of the entry that getCachedData returned                        *)

\* applyChangesToCache on the object getCachedData returned for the path:
\* files and folders are the arrays of the entry in the memory tier, and
\* splice and push change them where they are.
applyChangesToCacheInPlace(S, repoName, path, changes, cachedData) ==
    LET cacheKey == getCacheKey(repoName, path)
        done == applyChangesToCacheTry(path, changes.files, 1,
                                       cachedData.files, cachedData.folders)
        S1 == IF MapHas(S.memoryCache, cacheKey)
              THEN [S EXCEPT !.memoryCache[cacheKey] =
                                 [@ EXCEPT !.files = done.files, !.folders = done.folders]]
              ELSE S
    IN  Returns(S1, applyChangesToCache(repoName, path, changes, cachedData))

PatchStores ==
    {[key \in {getCacheKey(RepoA, path) : path \in Paths} |->
         JSONstringify(CachedEntry(k, CHOOSE path \in Paths : getCacheKey(RepoA, path) = key))] :
        k \in 1..2}

\* A caller reads the entry of a path and applies a changeset to it.
CallApplyChangesToCachedData ==
    /\ call = Null
    /\ \E changeList \in ChangeLists, path \in Paths :
          LET read == getCachedData(Store, now, RepoA, path)
              cachedData == read.ret
              changes == [files |-> changeList, commits |-> << >>]
              r == applyChangesToCacheInPlace(read.st, RepoA, path, changes, cachedData)
          IN  /\ cachedData # Null
              /\ call' = [op |-> "applyChangesToCache",
                          input |-> [cachedData |-> cachedData, changes |-> changes],
                          at |-> now,
                          result |-> r.ret]
              /\ Apply(r.st)
    /\ UNCHANGED <<now, cleared, remote, currentWorkspace, currentFolder, files, folders,
                   activeRequests, lastRequestedPaths, loads, aborted, nextLoad, lastLoad, accountVars>>

PatchInit == StoreInitial(PatchStores) /\ ViewInitial /\ remote = Remote("commits", 1)

PatchNext ==
    \/ CallApplyChangesToCachedData
    \/ \E path \in Paths : CallGetCachedData(RepoA, path)

PatchSpec == PatchInit /\ [][PatchNext]_vars

\* The processing of some change of the changeset fails.
PatchFails ==
    applyChangesToCacheTry(call.input.cachedData.path, call.input.changes.files, 1,
                           call.input.cachedData.files, call.input.cachedData.folders).threw

\* C35, first part: a patch of which the processing of a change fails
\* returns the listing as it was before the call.
C35_AllOrNothing ==
    (Patch /\ PatchFails) =>
        /\ call.result.files = call.input.cachedData.files
        /\ call.result.folders = call.input.cachedData.folders

\* C35, second part: the entry getCachedData returns for the path after the
\* call is the entry it returned before, as long as nothing is stored.
C35_EntryUntouched ==
    Patch => getCachedData(Store, now, RepoA, call.input.cachedData.path).ret
                = call.input.cachedData

\* C35: applyChangesToCache is all-or-nothing and leaves the stored entry as
\* it is.
C35_PatchLeavesEntry == C35_AllOrNothing /\ C35_EntryUntouched

----------------------------------------------------------------------------
(* A patch between two commits against the listing of the newer one        *)

\* The paths a file of the repository can have.
RepoFiles ==
    {<<"x.md">>, <<"docs", "/", "a.txt">>, <<"docs", "/", "b.txt">>,
     <<"docs", "/", "sub", "/", "c.txt">>}

PathPrefix(P) == IF P = << >> THEN P ELSE P \o <<"/">>

\* The files of a tree that lie in a subdirectory of P.
Deeper(tree, P) ==
    {f \in tree : IsPrefix(PathPrefix(P), f) /\ Len(f) > Len(PathPrefix(P)) + 1}

\* What the contents endpoint lists for P in a commit of which tree is the
\* set of file paths: the files right below P, and a folder for every
\* subdirectory that holds a file.
ListingAt(tree, P) ==
    [files |-> ArrayFrom({FileItem(f[Len(f)], f, "s1", 10) :
                              f \in {g \in tree : DirectChild(P, g)}}),
     folders |-> ArrayFrom({FolderItem(f[Len(PathPrefix(P)) + 1],
                                       PathPrefix(P) \o <<f[Len(PathPrefix(P)) + 1]>>, "s3") :
                                f \in Deeper(tree, P)})]

\* What the compare endpoint lists between two commits: the files added,
\* the files removed and the files whose content changed.
CompareBetween(from, to, touched) ==
    ArrayFrom({Change(f, "added", "s8", 1, 0) : f \in to \ from}
                  \cup {Change(f, "removed", "s1", 0, 1) : f \in from \ to}
                  \cup {Change(f, "modified", "s9", 1, 1) : f \in touched})

\* The entry of P that was stored under commit 1, whose tree is from, is
\* patched with the changes up to commit 2, whose tree is to.
CallPatchBetweenCommits ==
    /\ call = Null
    /\ \E from \in SUBSET RepoFiles, to \in SUBSET RepoFiles, path \in Paths :
          \E touched \in SUBSET (from \cap to) :
              LET cachedData == [CachedEntry(1, path) EXCEPT
                                     !.files = ListingAt(from, path).files,
                                     !.folders = ListingAt(from, path).folders]
                  changes == [files |-> CompareBetween(from, to, touched), commits |-> << >>]
              IN  call' = [op |-> "applyChangesToCache",
                           input |-> [cachedData |-> cachedData, changes |-> changes,
                                      from |-> from, to |-> to],
                           at |-> now,
                           result |-> applyChangesToCache(RepoA, path, changes, cachedData)]
    /\ UNCHANGED <<storeVars, cleared, remote, currentWorkspace, currentFolder, files, folders,
                   activeRequests, lastRequestedPaths, loads, aborted, nextLoad, lastLoad, accountVars>>

CompareNext == CallPatchBetweenCommits

CompareSpec == PureInit /\ [][CompareNext]_vars

Reloaded == ListingAt(call.input.to, call.input.cachedData.path)

\* C36: the listing patched with the changes between two commits has the
\* file names and the folder names of the listing of the newer commit.
C36_PatchEqualsReload ==
    Patch =>
        /\ Names(call.result.files) = Names(Reloaded.files)
        /\ Names(call.result.folders) = Names(Reloaded.folders)

\* The file names alone.
C36_FileNamesEqualReload == Patch => Names(call.result.files) = Names(Reloaded.files)

\* The folder names, between commits that have the same subdirectories of
\* the path.
C36_FolderNamesEqualReload ==
    (Patch /\ Names(call.input.cachedData.folders) = Names(Reloaded.folders)) =>
        Names(call.result.folders) = Names(Reloaded.folders)

----------------------------------------------------------------------------
(* Where a hit says its entry is                                           *)

\* The directories of the repository that is searched.
SearchDirectories == SearchPaths \cup {DeepPath}

\* The hit is for an entry of the listing of the directory it names as
\* searchPath, from the list its matchType tells, with the full path of
\* that entry.
Located(h, options) ==
    /\ h.searchPath \in SearchDirectories
    /\ h.fullPath = (IF h.searchPath = RootPath THEN h.name
                     ELSE h.searchPath \o <<"/">> \o h.name)
    /\ h.matchType \in {"file", "folder"}
    /\ h.matchType = "file" =>
          /\ options.includeFiles
          /\ \E i \in 1..Len(SearchListing(h.searchPath).files) :
                SearchListing(h.searchPath).files[i].name = h.name
    /\ h.matchType = "folder" =>
          /\ options.includeFolders
          /\ \E i \in 1..Len(SearchListing(h.searchPath).folders) :
                SearchListing(h.searchPath).folders[i].name = h.name

\* C37: every hit of searchCachedData and of searchCachedDataEnhanced names
\* the directory whose listing holds its entry, the full path of the entry
\* and the list it came from, whether it comes from a cached listing, from
\* a folder fetched on demand or from the tree listing.
C37_HitsLocated == \A i \in 1..Len(Hits) : Located(Hits[i], call.input.options)

\* The same for the hits of searchCachedData, which reads cached listings only.
C37_CachedHitsLocated ==
    (Search /\ call.op = "searchCachedData") =>
        \A i \in 1..Len(Hits) : Located(Hits[i], call.input.options)

\* The same for the enhanced search when it fetched no folder on demand.
C37_UnfetchedHitsLocated ==
    (Enhanced /\ \A j \in 1..Len(Requests) :
                    Requests[j].endpoint = "contents" => Requests[j].path = RootPath) =>
        \A i \in 1..Len(Hits) : Located(Hits[i], call.input.options)

----------------------------------------------------------------------------
(* The validity of the last-known token                                    *)

MemoryCommit(repoName) == Lookup(commitCache, repoName)

\* The record of the last-known token in the durable tier, if it holds one
\* that parses.
DurableCommit(repoName) ==
    LET key == getCommitCacheKey(repoName)
    IN  IF MapHas(localStorage, key) /\ ~JSONparseThrows(localStorage[key])
        THEN JSONparse(localStorage[key])
        ELSE Null

\* The record getCachedCommitSha comes to: the one of the memory tier when
\* it is valid, else the one of the durable tier.
CommitRecordRead(repoName) ==
    IF MemoryCommit(repoName) # Null /\ ValidEntry(MemoryCommit(repoName), now)
    THEN MemoryCommit(repoName)
    ELSE DurableCommit(repoName)

\* C38: the token getCachedCommitSha returns is that of a record of the
\* current version whose age is below MAX_CACHE_AGE, in either tier, and a
\* record it finds that is not is deleted from its tier by the call.
C38_CommitRecordValidity ==
    \A repoName \in Repos :
        LET r == getCachedCommitSha(Store, now, repoName)
            read == CommitRecordRead(repoName)
        IN  /\ r.ret # Null => ValidEntry(read, now) /\ r.ret = read.commitSha
            /\ (MemoryCommit(repoName) # Null /\ ~ValidEntry(MemoryCommit(repoName), now)) =>
                    Lookup(r.st.commitCache, repoName) # MemoryCommit(repoName)
            /\ (read # Null /\ ~ValidEntry(read, now)) =>
                    /\ r.ret = Null
                    /\ ~MapHas(r.st.localStorage, getCommitCacheKey(repoName))

\* The token returned is that of a valid record when the record read is of
\* the current version and its age is not MAX_CACHE_AGE itself.
C38_ValidButForVersionAndBoundary ==
    \A repoName \in Repos :
        LET r == getCachedCommitSha(Store, now, repoName)
            read == CommitRecordRead(repoName)
        IN  (/\ r.ret # Null
             /\ read.version = CACHE_VERSION
             /\ now - read.timestamp # MAX_CACHE_AGE) =>
                ValidEntry(read, now) /\ r.ret = read.commitSha

----------------------------------------------------------------------------
(* The workspace cache and the workspace store                             *)

WORKSPACE_CACHE_PREFIX == "workspace_cache_"
WORKSPACE_CACHE_VERSION == "1.0"
WORKSPACE_CACHE_AGE == 5 * 60 * 1000

getWorkspaceCacheKey(userId) == <<WORKSPACE_CACHE_PREFIX, "user_", userId>>
getUserCacheKey(userId) == <<WORKSPACE_CACHE_PREFIX, "userdata_", userId>>

\* The state the functions of the workspace cache and of the workspace
\* store work on.
Account ==
    [localStorage |-> localStorage, timers |-> timers, currentWorkspace |-> currentWorkspace,
     user |-> user, workspaces |-> workspaces, workspaceMemoryCache |-> workspaceMemoryCache,
     userMemoryCache |-> userMemoryCache]

\* A list that was found, and the null returned in place of one.
Found(S, v) == [null |-> FALSE, st |-> S, ret |-> v, threw |-> FALSE]
NotFound(S) == [null |-> TRUE, st |-> S, ret |-> << >>, threw |-> FALSE]

\* The try block of getCachedWorkspaces.
getCachedWorkspacesTry(S, t, userId) ==
    LET cacheKey == getWorkspaceCacheKey(userId)
        memoryHit == MapHas(S.workspaceMemoryCache, cacheKey)
        memoryCached == S.workspaceMemoryCache[cacheKey]
        memoryValid == /\ memoryHit
                       /\ memoryCached.version = WORKSPACE_CACHE_VERSION
                       /\ (t - memoryCached.timestamp) < WORKSPACE_CACHE_AGE
        S1 == IF memoryHit /\ ~memoryValid
              THEN [S EXCEPT !.workspaceMemoryCache = MapDelete(@, cacheKey)]
              ELSE S
        removed == [S1 EXCEPT !.localStorage = MapDelete(@, cacheKey)]
    IN  IF memoryValid THEN Found(S, memoryCached.workspaces)
        ELSE IF ~MapHas(S1.localStorage, cacheKey) THEN NotFound(S1)
        ELSE IF JSONparseThrows(S1.localStorage[cacheKey])
        THEN [NotFound(S1) EXCEPT !.threw = TRUE]
        ELSE LET parsedCache == JSONparse(S1.localStorage[cacheKey])
             IN  IF parsedCache.version # WORKSPACE_CACHE_VERSION THEN NotFound(removed)
                 ELSE IF t - parsedCache.timestamp > WORKSPACE_CACHE_AGE
                 THEN NotFound(removed)
                 ELSE Found([S1 EXCEPT !.workspaceMemoryCache =
                                           MapSet(@, cacheKey, parsedCache)],
                            parsedCache.workspaces)

getCachedWorkspaces(S, t, userId) ==
    LET r == getCachedWorkspacesTry(S, t, userId)
    IN  IF r.threw THEN NotFound(r.st) ELSE r

\* setCachedWorkspaces: the record goes to the memory tier at once and to
\* localStorage from a setTimeout callback.
setCachedWorkspaces(S, t, userId, workspacesArg) ==
    LET cacheKey == getWorkspaceCacheKey(userId)
        cacheData == [workspaces |-> workspacesArg, version |-> WORKSPACE_CACHE_VERSION,
                      timestamp |-> t, userId |-> userId]
    IN  [S EXCEPT !.workspaceMemoryCache = MapSet(@, cacheKey, cacheData),
                  !.timers = Append(@, [cacheKey |-> cacheKey, cacheData |-> cacheData])]

\* The try block of getCachedUser.
getCachedUserTry(S, t, userId) ==
    LET cacheKey == getUserCacheKey(userId)
        memoryHit == MapHas(S.userMemoryCache, cacheKey)
        memoryCached == S.userMemoryCache[cacheKey]
        memoryValid == /\ memoryHit
                       /\ memoryCached.version = WORKSPACE_CACHE_VERSION
                       /\ (t - memoryCached.timestamp) < WORKSPACE_CACHE_AGE
        S1 == IF memoryHit /\ ~memoryValid
              THEN [S EXCEPT !.userMemoryCache = MapDelete(@, cacheKey)]
              ELSE S
    IN  IF memoryValid THEN Returns(S, memoryCached.userData)
        ELSE IF ~MapHas(S1.localStorage, cacheKey) THEN Returns(S1, Null)
        ELSE IF JSONparseThrows(S1.localStorage[cacheKey]) THEN Throws(S1)
        ELSE LET parsedCache == JSONparse(S1.localStorage[cacheKey])
             IN  IF \/ parsedCache.version # WORKSPACE_CACHE_VERSION
                    \/ (t - parsedCache.timestamp) > WORKSPACE_CACHE_AGE
                 THEN Returns([S1 EXCEPT !.localStorage = MapDelete(@, cacheKey)], Null)
                 ELSE Returns([S1 EXCEPT !.userMemoryCache =
                                             MapSet(@, cacheKey, parsedCache)],
                              parsedCache.userData)

getCachedUser(S, t, userId) ==
    LET r == getCachedUserTry(S, t, userId)
    IN  IF r.threw THEN Returns(r.st, Null) ELSE r

setCachedUser(S, t, userId, userData) ==
    LET cacheKey == getUserCacheKey(userId)
        cacheData == [version |-> WORKSPACE_CACHE_VERSION, timestamp |-> t,
                      userId |-> userId, userData |-> userData]
    IN  [S EXCEPT !.userMemoryCache = MapSet(@, cacheKey, cacheData),
                  !.timers = Append(@, [cacheKey |-> cacheKey, cacheData |-> cacheData])]

clearWorkspaceCache(S, userId) ==
    [S EXCEPT !.workspaceMemoryCache = MapDelete(@, getWorkspaceCacheKey(userId)),
              !.userMemoryCache = MapDelete(@, getUserCacheKey(userId)),
              !.localStorage = MapDelete(MapDelete(@, getWorkspaceCacheKey(userId)),
                                         getUserCacheKey(userId))]

\* The setters of the workspace store.
setWorkspaces(S, newWorkspaces) ==
    [S EXCEPT !.workspaces = newWorkspaces,
              !.localStorage = MapSet(@, <<"available_workspaces">>,
                                      JSONstringify(newWorkspaces))]

setUser(S, userData) ==
    [S EXCEPT !.user = userData,
              !.localStorage = MapSet(@, <<"user_info">>, JSONstringify(userData))]

\* clearData of the workspace store: the refs are reset and their copies in
\* localStorage removed; then the workspace cache is cleared for the user
\* the store holds at that point.
clearDataOf(S) ==
    LET S1 == [S EXCEPT !.currentWorkspace = Null,
                        !.workspaces = << >>,
                        !.user = Null,
                        !.localStorage = MapDelete(MapDelete(MapDelete(@,
                                             <<"current_workspace">>),
                                             <<"available_workspaces">>), <<"user_info">>)]
    IN  IF S1.user # Null THEN clearWorkspaceCache(S1, S1.user.id) ELSE S1

\* loadWorkspacesDirect(authUser, includeArchived, true, silent) with the
\* answer of the query: silent or not, the list is cached and set.
loadWorkspacesDirect(S, t, authUser, processed) ==
    setWorkspaces(setCachedWorkspaces(S, t, authUser.id, processed), processed)

\* loadWorkspaces for the signed-in user authUser; answer is "ok" or "error"
\* for the query of loadWorkspacesDirect, processed the list it yields.
loadWorkspacesOf(S, t, authUser, forceRefresh, answer, processed) ==
    LET cachedUserData == getCachedUser(S, t, authUser.id)
        S1 == IF cachedUserData.ret # Null /\ ~forceRefresh
              THEN setUser(cachedUserData.st, cachedUserData.ret)
              ELSE setUser(setCachedUser(cachedUserData.st, t, authUser.id, authUser),
                           authUser)
        cachedWorkspaces == getCachedWorkspaces(S1, t, authUser.id)
    IN  IF ~forceRefresh /\ ~cachedWorkspaces.null /\ Len(cachedWorkspaces.ret) > 0
        THEN [setWorkspaces(cachedWorkspaces.st, cachedWorkspaces.ret) EXCEPT
                 !.timers = Append(@, [authUser |-> authUser])]
        ELSE LET S2 == IF forceRefresh THEN S1 ELSE cachedWorkspaces.st
             IN  IF answer = "ok" THEN loadWorkspacesDirect(S2, t, authUser, processed)
                 ELSE S2

\* A setTimeout callback of the workspace cache or of loadWorkspaces runs:
\* the write of a record to localStorage, which fails when the quota is
\* exceeded, or the background refresh.
accountTimer(S, t, tm, quota, answer, processed) ==
    IF "authUser" \in DOMAIN tm
    THEN IF answer = "ok" THEN loadWorkspacesDirect(S, t, tm.authUser, processed) ELSE S
    ELSE IF quota THEN S
    ELSE [S EXCEPT !.localStorage = MapSet(@, tm.cacheKey, JSONstringify(tm.cacheData))]

ApplyAccount(S) ==
    /\ localStorage' = S.localStorage
    /\ timers' = S.timers
    /\ currentWorkspace' = S.currentWorkspace
    /\ user' = S.user
    /\ workspaces' = S.workspaces
    /\ workspaceMemoryCache' = S.workspaceMemoryCache
    /\ userMemoryCache' = S.userMemoryCache

accountRest ==
    <<now, memoryCache, commitCache, cleared, remote, currentFolder, files, folders,
      activeRequests, lastRequestedPaths, loads, aborted, nextLoad, lastLoad, call>>

Users == {[id |-> "u1"], [id |-> "u2"]}

WorkspaceLists ==
    {<< >>, <<Workspace(1, RepoA)>>, <<Workspace(1, RepoA), Workspace(2, RepoB)>>}

loadWorkspaces ==
    /\ Len(timers) <= MaxTimers
    /\ \E authUser \in Users, forceRefresh \in BOOLEAN, answer \in {"ok", "error"},
          processed \in WorkspaceLists :
            ApplyAccount(loadWorkspacesOf(Account, now, authUser, forceRefresh, answer,
                                          processed))
    /\ UNCHANGED accountRest

clearData ==
    /\ ApplyAccount(clearDataOf(Account))
    /\ UNCHANGED accountRest

\* The callbacks with a delay of zero run in the order they were scheduled;
\* the background refresh has a delay of its own.
RunAccountTimer ==
    /\ \E i \in 1..Len(timers), quota \in BOOLEAN, answer \in {"ok", "error"},
          processed \in WorkspaceLists :
            /\ \A j \in 1..(i - 1) :
                  ("authUser" \in DOMAIN timers[j]) # ("authUser" \in DOMAIN timers[i])
            /\ ApplyAccount(accountTimer(
                   [Account EXCEPT !.timers = SubSeq(@, 1, i - 1)
                                                 \o SubSeq(@, i + 1, Len(@))],
                   now, timers[i], quota, answer, processed))
    /\ UNCHANGED accountRest

AccountInit == StoreInitial({<< >>}) /\ ViewInitial /\ remote = Remote("commits", 1)

AccountNext ==
    \/ loadWorkspaces
    \/ clearData
    \/ RunAccountTimer

AccountSpec == AccountInit /\ [][AccountNext]_vars

\* The workspace cache holds nothing for the user, in either tier.
WorkspaceCacheCleared(S, t, userId) ==
    /\ getCachedWorkspaces(S, t, userId).null
    /\ getCachedUser(S, t, userId).ret = Null
    /\ ~MapHas(S.workspaceMemoryCache, getWorkspaceCacheKey(userId))
    /\ ~MapHas(S.userMemoryCache, getUserCacheKey(userId))
    /\ ~MapHas(S.localStorage, getWorkspaceCacheKey(userId))
    /\ ~MapHas(S.localStorage, getUserCacheKey(userId))

\* C39: after clearData of the workspace store has run for the signed-in
\* user U, the workspace cache of U is cleared: getCachedWorkspaces(U) and
\* getCachedUser(U) return nothing, from either tier.
C39_ClearDataClearsCache ==
    [][(user # Null /\ user' = Null) => WorkspaceCacheCleared(Account', now', user.id)]_vars

\* clearWorkspaceCache itself leaves nothing of the user in either tier.
C39_ClearWorkspaceCacheClears ==
    \A u \in Users : WorkspaceCacheCleared(clearWorkspaceCache(Account, u.id), now, u.id)

\* A signed-out store whose workspace cache still holds records.
C39_SignedOutWithCache ==
    ~(user = Null /\ (workspaceMemoryCache # << >> \/ userMemoryCache # << >>))

====
